---- MODULE Spec2Model ----
(***************************************************************************)
(* Grid level state machine of the repository, modelled from src/SOL.py    *)
(* (class GridCaseD and the polling loop of main).                          *)
(*                                                                          *)
(* Quantities are counted in whole lots.  Prices are integers; the grid of  *)
(* the reference scenario has bounds [95,105] and 10 steps of width 1.      *)
(* The exchange is the environment: every order it receives is either       *)
(* rejected (place raises) or accepted and reported with a fill quantity.   *)
(***************************************************************************)
EXTENDS Integers, Sequences, FiniteSets, TLC

\* ---------------------------------------------------------------- bounds
\* Number of price samples (calls of on_price / flatten_all) in one run.
MaxTicks == 3
\* Number of calls a caller of the instance makes in one run.
MaxCalls == 2
\* Number of abnormal exchange responses (rejected order, fill different
\* from the full quantity) in one run.
MaxFaults == 1
\* Lots filled by one unit buy that fills in full.
UnitQty == 2

\* ------------------------------------------------------ program constants
NLevels == 10
StartLevel == 5
Lower == 95
Upper == 105
MinSz == 2

Levels == 0..NLevels
\* Price samples fed to on_price: the two bounds and five prices in between.
Prices == {95, 97, 99, 100, 102, 103, 105}

Max(a, b) == IF a >= b THEN a ELSE b
Min(a, b) == IF a <= b THEN a ELSE b

\* ------------------------------------------------------------ the ledger
\* held: level -> qty, a dict: a function whose domain is the set of keys.
EmptyHeld == [l \in {} |-> 0]

\* self.held.get(level, 0.0)
HeldGet(h, level) == IF level \in DOMAIN h THEN h[level] ELSE 0

\* self.held[level] = self.held.get(level, 0.0) + qty
HeldCredit(h, level, qty) ==
  [l \in (DOMAIN h) \cup {level} |-> IF l = level THEN HeldGet(h, level) + qty ELSE h[l]]

\* A variant of HeldDebit: the difference is stored as it is, neither clamped
\* at 0 nor removed.
HeldDebit_Unclamped(h, level, had, sold) ==
  [l \in (DOMAIN h) \cup {level} |-> IF l = level THEN had - sold ELSE h[l]]

\* self.held[level] = max(0.0, had - sold); if self.held[level] <= 0: pop
HeldDebit(h, level, had, sold) ==
  LET left == Max(0, had - sold)
  IN  IF left <= 0
      THEN [l \in (DOMAIN h) \ {level} |-> h[l]]
      ELSE [l \in (DOMAIN h) \cup {level} |-> IF l = level THEN left ELSE h[l]]

\* The levels with a positive quantity.
HeldLevels(h) == {l \in DOMAIN h : h[l] > 0}

\* ---------------------------------------------------------- level mapping
\* GridCaseD.price_to_level on a grid with the bounds lower < upper:
\* floor(rel * 10), rel = (px - lower) / (upper - lower), clamped to 0..10.
PriceToLevelOf(lower, upper, px) ==
  IF px <= lower THEN 0
  ELSE IF px >= upper THEN NLevels
  ELSE Max(0, Min(NLevels, ((px - lower) * NLevels) \div (upper - lower)))

\* GridCaseD.price_to_level on the grid of the reference scenario.
PriceToLevel(px) == PriceToLevelOf(Lower, Upper, px)

\* ------------------------------------------------------------ the exchange
\* One line of the order log of a call: an order intent of the strategy.
\*   side    "buy" | "sell"
\*   level   the level the intent is for
\*   qty     the quantity asked for (a buy asks for one unit)
\*   had     the ledger's quantity at that level when the intent was made
\*   placed  an order was sent to the exchange (FALSE: skipped as dust)
\*   ok      the exchange accepted the order (FALSE: place raised)
\*   fill    the quantity the exchange reported as filled
Entry(side, level, qty, had, placed, ok, fill) ==
  [side |-> side, level |-> level, qty |-> qty, had |-> had,
   placed |-> placed, ok |-> ok, fill |-> fill]

\* What fills() may report for an accepted unit buy: the full unit, or, as
\* an abnormal response, nothing or a partial fill.
BuyFills(faults) ==
  {UnitQty} \cup (IF faults < MaxFaults THEN {0, UnitQty - 1} ELSE {})

\* What fills() may report for an accepted sell of qty: all of it, or, as an
\* abnormal response, nothing, one lot less, or one lot more.
SellFills(qty, faults) ==
  {qty} \cup (IF faults < MaxFaults THEN {0, qty - 1, qty + 1} ELSE {})

\* place(): the exchange may reject the order (code != "0"), and place raises.
MayReject(faults) == faults < MaxFaults

\* GridCaseD._buy_unit: the possible results of one call.
BuyUnit(level, had, faults) ==
  { [entry  |-> Entry("buy", level, UnitQty, had, TRUE, TRUE, f),
     qty    |-> f,
     raised |-> FALSE,
     faults |-> IF f = UnitQty THEN faults ELSE faults + 1] : f \in BuyFills(faults) }
  \cup
  (IF MayReject(faults)
   THEN { [entry  |-> Entry("buy", level, UnitQty, had, TRUE, FALSE, 0),
           qty    |-> 0,
           raised |-> TRUE,
           faults |-> faults + 1] }
   ELSE {})

\* GridCaseD._sell_qty: the possible results of one call.
SellQty(level, qty, faults) ==
  IF qty < MinSz
  THEN { [entry  |-> Entry("sell", level, qty, qty, FALSE, FALSE, 0),
          sold   |-> 0,
          raised |-> FALSE,
          faults |-> faults] }
  ELSE
    { [entry  |-> Entry("sell", level, qty, qty, TRUE, TRUE, f),
       sold   |-> f,
       raised |-> FALSE,
       faults |-> IF f = qty THEN faults ELSE faults + 1] : f \in SellFills(qty, faults) }
    \cup
    (IF MayReject(faults)
     THEN { [entry  |-> Entry("sell", level, qty, qty, TRUE, FALSE, 0),
             sold   |-> 0,
             raised |-> TRUE,
             faults |-> faults + 1] }
     ELSE {})

\* ------------------------------------------------------------ the strategy
\* The running state of one call: the ledger, the orders so far, the abnormal
\* responses so far, and whether an exception is propagating.
CallState(h, log, faults, raised) ==
  [held |-> h, log |-> log, faults |-> faults, raised |-> raised]

\* on_price: nxt = cur + step
NextLevel(cur, step) == cur + step

\* A variant of UpShouldSell: the level left behind is never sold.
UpShouldSell_Never(h, cur) == FALSE

\* on_price, upward: if cur in self.held and self.held[cur] > 0
UpShouldSell(h, cur) == cur \in DOMAIN h /\ h[cur] > 0

\* Variants of DownShouldBuy: the test is dropped; the test reads the level
\* being left instead of the level being entered; nothing is bought.
DownShouldBuy_Always(h, nxt) == TRUE
DownShouldBuy_AtCur(h, nxt) == HeldGet(h, nxt + 1) <= 0
DownShouldBuy_Never(h, nxt) == FALSE

\* on_price, downward: if self.held.get(nxt, 0.0) <= 0
DownShouldBuy(h, nxt) == HeldGet(h, nxt) <= 0

\* on_price, the body of the loop for step == 1: buy nxt, then sell cur.
UpCross(st, cur) ==
  LET nxt == NextLevel(cur, 1)
  IN  UNION {
        IF b.raised
        THEN { CallState(st.held, Append(st.log, b.entry), b.faults, TRUE) }
        ELSE LET h1   == HeldCredit(st.held, nxt, b.qty)
                 log1 == Append(st.log, b.entry)
             IN  IF UpShouldSell(h1, cur)
                 THEN { CallState(IF s.raised THEN h1
                                  ELSE HeldDebit(h1, cur, h1[cur], s.sold),
                                  Append(log1, s.entry), s.faults, s.raised)
                        : s \in SellQty(cur, h1[cur], b.faults) }
                 ELSE { CallState(h1, log1, b.faults, FALSE) }
        : b \in BuyUnit(nxt, HeldGet(st.held, nxt), st.faults) }

\* on_price, the body of the loop for step == -1: buy nxt if not held.
DownCross(st, cur) ==
  LET nxt == NextLevel(cur, -1)
  IN  IF DownShouldBuy(st.held, nxt)
      THEN { CallState(IF b.raised THEN st.held ELSE HeldCredit(st.held, nxt, b.qty),
                       Append(st.log, b.entry), b.faults, b.raised)
             : b \in BuyUnit(nxt, HeldGet(st.held, nxt), st.faults) }
      ELSE { st }

\* on_price: while cur != lv
RECURSIVE Walk(_, _, _, _)
Walk(st, cur, lv, step) ==
  IF st.raised \/ cur = lv
  THEN { st }
  ELSE UNION { Walk(s, NextLevel(cur, step), lv, step)
               : s \in (IF step = 1 THEN UpCross(st, cur) ELSE DownCross(st, cur)) }

\* sorted(list(self.held.keys()), reverse=True)
RECURSIVE SortedDesc(_)
SortedDesc(S) ==
  IF S = {} THEN << >>
  ELSE LET m == CHOOSE x \in S : \A y \in S : y <= x
       IN  <<m>> \o SortedDesc(S \ {m})

\* sorted(S): ascending order.
RECURSIVE SortedAsc(_)
SortedAsc(S) ==
  IF S = {} THEN << >>
  ELSE LET m == CHOOSE x \in S : \A y \in S : x <= y
       IN  <<m>> \o SortedAsc(S \ {m})

FlattenOrder_Ascending(h) == SortedAsc(DOMAIN h)

FlattenOrder(h) == SortedDesc(DOMAIN h)

\* flatten_all: the loop over the keys, from position i of the order.
RECURSIVE FlattenLoop(_, _, _)
FlattenLoop(st, order, i) ==
  IF st.raised \/ i > Len(order)
  THEN { st }
  ELSE LET lv  == order[i]
           qty == HeldGet(st.held, lv)
       IN  IF qty > 0
           THEN UNION { FlattenLoop(CallState(IF s.raised THEN st.held
                                              ELSE HeldDebit(st.held, lv, qty, s.sold),
                                              Append(st.log, s.entry), s.faults, s.raised),
                                    order, i + 1)
                        : s \in SellQty(lv, qty, st.faults) }
           ELSE FlattenLoop(st, order, i + 1)

\* A variant of FlattenAll: the loop starts at the second key, so the highest
\* level is left out.
FlattenAll_SkipTop(st) == FlattenLoop(st, Tail(FlattenOrder(st.held)), 1)

\* GridCaseD.flatten_all
FlattenAll(st) == FlattenLoop(st, FlattenOrder(st.held), 1)

\* A variant of IsBoundary: only the lower boundary closes the grid.
IsBoundary_LowerOnly(lv) == lv = 0

\* on_price: if lv in (0, 10)
IsBoundary(lv) == lv \in {0, NLevels}

\* The result of one call of on_price.
\*   result  "returned" | "exit" (SystemExit raised after the flatten)
\*           | "raised" (an exception of place propagates)
\*   nwalk   the number of log lines written by the walk
\*   mid     the ledger when the walk ended
\*   flat    flatten_all was called
CallResult(h, prev, log, faults, result, nwalk, mid, flat) ==
  [held |-> h, prev_level |-> prev, log |-> log, faults |-> faults,
   result |-> result, nwalk |-> nwalk, mid |-> mid, flat |-> flat]

\* A variant of OnPrice: a sample at the level of prev_level fires the entry
\* of that level again (a unit is bought at it).
OnPrice_RefiresAtSameLevel(h, prev, faults, px) ==
  LET lv == PriceToLevel(px)
      step == IF lv > prev THEN 1 ELSE -1
      st0 == CallState(h, << >>, faults, FALSE)
  IN  UNION {
        IF w.raised
        THEN { CallResult(w.held, prev, w.log, w.faults, "raised", Len(w.log), w.held, FALSE) }
        ELSE IF IsBoundary(lv) /\ lv # prev
        THEN { CallResult(f.held, lv, f.log, f.faults,
                          IF f.raised THEN "raised" ELSE "exit",
                          Len(w.log), w.held, TRUE)
               : f \in FlattenAll(w) }
        ELSE { CallResult(w.held, lv, w.log, w.faults, "returned", Len(w.log), w.held, FALSE) }
        : w \in IF lv = prev
                THEN { CallState(IF b.raised THEN h ELSE HeldCredit(h, lv, b.qty),
                                 <<b.entry>>, b.faults, b.raised)
                       : b \in BuyUnit(lv, HeldGet(h, lv), faults) }
                ELSE Walk(st0, prev, lv, step) }

\* GridCaseD.on_price: the possible results of one call.
OnPrice(h, prev, faults, px) ==
  LET lv == PriceToLevel(px)
  IN  IF lv = prev
      THEN { CallResult(h, prev, << >>, faults, "returned", 0, h, FALSE) }
      ELSE LET step == IF lv > prev THEN 1 ELSE -1
           IN  UNION {
                 IF w.raised
                 THEN { CallResult(w.held, prev, w.log, w.faults, "raised", Len(w.log), w.held, FALSE) }
                 ELSE IF IsBoundary(lv)
                 THEN { CallResult(f.held, lv, f.log, f.faults,
                                   IF f.raised THEN "raised" ELSE "exit",
                                   Len(w.log), w.held, TRUE)
                        : f \in FlattenAll(w) }
                 ELSE { CallResult(w.held, lv, w.log, w.faults, "returned", Len(w.log), w.held, FALSE) }
                 : w \in Walk(CallState(h, << >>, faults, FALSE), prev, lv, step) }

\* A direct call of flatten_all (the timeout branch of main, or a caller).
Flatten(h, prev, faults) ==
  { CallResult(f.held, prev, f.log, f.faults,
               IF f.raised THEN "raised" ELSE "returned", 0, h, TRUE)
    : f \in FlattenAll(CallState(h, << >>, faults, FALSE)) }

\* ------------------------------------------------------------------ state
VARIABLES
  held,        \* GridCaseD.held
  prev_level,  \* GridCaseD.prev_level
  pc,          \* main: "poll" (in the loop, between two samples), "boundary"
               \* / "timeup" (the loop was left), "crashed" (an exception
               \* left main), "interrupted" (KeyboardInterrupt)
  closed,      \* history: on_price has flattened at a boundary level
  flattened,   \* history: a call of flatten_all has run to its end
  ticks,       \* calls made so far
  faults,      \* abnormal exchange responses so far
  trip,        \* history: the shape of the levels sampled so far: "up"
               \* (never fell), "down" (rose to peak, then never rose
               \* again), "off" (anything else), and the highest level
  last         \* history: the last call, its arguments, the state it started
               \* from and the orders it issued

\* The state of the other programs of the repository.  Each specification
\* below runs one program (or one of a few); the programs it does not run
\* stay in their "off" state.
VARIABLES
  lvq,         \* a query of a level mapping: the mapping applied, its
               \* arguments and the level it returned
  mgr,         \* sol_po.py: the GridManager of main (grids, next_tag_ord,
               \* last_grid_minute), main's position, and the counts of
               \* loop iterations and abnormal exchange responses
  mgrLast,     \* history: the last iteration of sol_po.main
  pv,          \* sol_usdt_positive.py: the locals of main (grids,
               \* started_marks, grid_count), the clock, main's position and
               \* the counts of iterations and abnormal responses
  pvLast,      \* history: the last iteration of sol_usdt_positive.main
  su,          \* sol_usdt_success.py: the locals of main (grids,
               \* next_label_idx, last_spawn_key, price), INSTR_RULES, the
               \* clock, main's position and the counts of iterations and
               \* abnormal responses
  suLast,      \* history: the last iteration of sol_usdt_success.main
  mx,          \* mexc_cloud_bot.py: the GridStrategy of main (grids,
               \* grid_counter, current_price), last_grid_create_minute,
               \* main's position in the loop ("create", "check", "update"),
               \* the counts of iterations and abnormal answers, and
               \* whether the iteration under way has placed an order or
               \* changed a grid before update_grids (touched); log is the
               \* order log of the call under way
  mxLast,      \* history: the last call made by mexc_cloud_bot.main; of
               \* update_grids, the grids when it was called (grids1)
  wait         \* usdc_usdt_grid_bot.py: a call of MovingGridBot._wait_for_order:
               \* its position, order_info['type'], the seconds since
               \* start_time and since order_info['created_time'] as read at
               \* the test of the while loop, the re-placements made (counted
               \* up to WtMaxReplaced) and what the call returned
VARIABLES
  ub,          \* usdc_usdt_grid_bot.py: the grid of the MovingGridBot of main
               \* that was created last (grids, at most one of them is
               \* active), grid_counter, main's position and the count of
               \* iterations
  ubLast,      \* history: the last iteration of usdc_usdt_grid_bot.main: the
               \* grid when update_grids was called and what the sell of
               \* its position answered
  ob,          \* mexc-grid-bot/mexc_cloud_bot.py: the GridStrategy of main
               \* (grids, with the levels that are keys of buy_orders,
               \* sell_orders and filled_positions; grid_counter), main's
               \* position and the count of iterations
  obLast       \* history: the last iteration of its main: the price
               \* update_grids read and the grids before the iteration

solVars == <<held, prev_level, pc, closed, flattened, ticks, faults, trip, last>>
lvVars == <<lvq>>
poVars == <<mgr, mgrLast>>
pvVars == <<pv, pvLast>>

vars == <<solVars, lvVars, poVars, pvVars, su, suLast, mx, mxLast, wait,
          ub, ubLast, ob, obLast>>

\* SOL.py is not running.
SolOff ==
  /\ held = EmptyHeld
  /\ prev_level = StartLevel
  /\ pc = "off"
  /\ closed = FALSE
  /\ flattened = FALSE
  /\ ticks = 0
  /\ faults = 0
  /\ trip = [trend |-> "up", peak |-> StartLevel]
  /\ last = [op |-> "off"]

\* No level mapping is queried.
LevelsOff == lvq = [fn |-> "off"]

\* self.last_grid_minute = None
NoMinute == -1

\* sol_po.py is not running: the manager's fields as GridManager.__init__
\* sets them, and no iteration made.
MgrOff ==
  [pc |-> "off", grids |-> << >>, next_tag_ord |-> 0,
   last_grid_minute |-> NoMinute, faults |-> 0, ticks |-> 0]
MgrNoTick ==
  [fetched |-> FALSE, minute |-> NoMinute, px |-> 0, mgr0 |-> MgrOff,
   spawned |-> FALSE, spawn_log |-> << >>, grids1 |-> << >>,
   log |-> << >>, result |-> "none", to_delete |-> {}]
PoOff == mgr = MgrOff /\ mgrLast = MgrNoTick

\* sol_usdt_positive.py is not running: the locals of main as they are set
\* before the loop, the clock before the first opening window, and no
\* iteration made.
PvMainOff ==
  [pc |-> "off", grids |-> << >>, started_marks |-> {}, grid_count |-> 0,
   key |-> 0, window |-> FALSE, faults |-> 0, ticks |-> 0]
PvNoTick ==
  [px |-> 0, pv0 |-> PvMainOff, tried |-> FALSE, spawned |-> FALSE,
   spawn_log |-> << >>, log |-> << >>, sizings |-> << >>, result |-> "none"]
PvOff == pv = PvMainOff /\ pvLast = PvNoTick

\* sol_usdt_success.py is not running.
SuMainOff ==
  [pc |-> "off", grids |-> << >>, next_label_idx |-> 0, last_spawn_key |-> 0,
   min_sz |-> 0, price |-> 0, key |-> 0, window |-> FALSE, faults |-> 0,
   ticks |-> 0]
SuNoTick ==
  [fetched |-> FALSE, px |-> 0, su0 |-> SuMainOff, log |-> << >>,
   spawned |-> FALSE, dropped |-> << >>, result |-> "none"]

\* mexc_cloud_bot.py is not running.
MxMainOff ==
  [pc |-> "off", grids |-> << >>, grid_counter |-> 0,
   last_grid_create_minute |-> NoMinute, current_price |-> 0,
   touched |-> FALSE, log |-> << >>, faults |-> 0, ticks |-> 0]
MxNoTick ==
  [op |-> "none", fetched |-> TRUE, px |-> 0, grids1 |-> << >>, log |-> << >>]

\* usdc_usdt_grid_bot.py: no call of _wait_for_order is made.
WaitOff ==
  [pc |-> "off", type |-> "none", since_start |-> 0, age |-> 0,
   replaced |-> 0, ret |-> "none"]

\* usdc_usdt_grid_bot.py: main is not running.
UbMainOff == [pc |-> "off", grid |-> << >>, grid_counter |-> 0, ticks |-> 0]
UbNoTick == [op |-> "none", px |-> 0, grid0 |-> << >>, sell |-> "none"]

\* mexc-grid-bot/mexc_cloud_bot.py: main is not running.
ObMainOff == [pc |-> "off", grids |-> << >>, grid_counter |-> 0, ticks |-> 0]
ObNoTick == [op |-> "none", px |-> 0, grids0 |-> << >>]

\* Every program but those of the set run is off.
OffExcept(run) ==
  /\ IF "SOL" \in run THEN TRUE ELSE SolOff
  /\ IF "levels" \in run THEN TRUE ELSE LevelsOff
  /\ IF "sol_po" \in run THEN TRUE ELSE PoOff
  /\ IF "sol_usdt_positive" \in run THEN TRUE ELSE PvOff
  /\ IF "sol_usdt_success" \in run THEN TRUE
     ELSE su = SuMainOff /\ suLast = SuNoTick
  /\ IF "mexc_cloud_bot" \in run THEN TRUE
     ELSE mx = MxMainOff /\ mxLast = MxNoTick
  /\ IF "usdc_usdt_grid_bot" \in run THEN TRUE ELSE wait = WaitOff
  /\ IF "MovingGridBot" \in run THEN TRUE
     ELSE ub = UbMainOff /\ ubLast = UbNoTick
  /\ IF "mexc-grid-bot" \in run THEN TRUE
     ELSE ob = ObMainOff /\ obLast = ObNoTick

\* The programs that are not in the set run keep their state.
Frame(run) ==
  /\ IF "SOL" \in run THEN TRUE ELSE UNCHANGED solVars
  /\ IF "levels" \in run THEN TRUE ELSE UNCHANGED lvVars
  /\ IF "sol_po" \in run THEN TRUE ELSE UNCHANGED poVars
  /\ IF "sol_usdt_positive" \in run THEN TRUE ELSE UNCHANGED pvVars
  /\ IF "sol_usdt_success" \in run THEN TRUE ELSE UNCHANGED <<su, suLast>>
  /\ IF "mexc_cloud_bot" \in run THEN TRUE ELSE UNCHANGED <<mx, mxLast>>
  /\ IF "usdc_usdt_grid_bot" \in run THEN TRUE ELSE UNCHANGED wait
  /\ IF "MovingGridBot" \in run THEN TRUE ELSE UNCHANGED <<ub, ubLast>>
  /\ IF "mexc-grid-bot" \in run THEN TRUE ELSE UNCHANGED <<ob, obLast>>

\* The shape of the sampled levels after a sample at level lv that follows
\* level cur.
TripAfter(t, cur, lv) ==
  [trend |-> CASE t.trend = "up" /\ lv >= cur            -> "up"
               [] t.trend \in {"up", "down"} /\ lv < cur -> "down"
               [] t.trend = "down" /\ lv = cur           -> "down"
               [] OTHER                                  -> "off",
   peak  |-> Max(t.peak, lv)]

\* The record of a call.
LastCall(op, px, r) ==
  [op |-> op, px |-> px, lv |-> IF op = "on_price" THEN PriceToLevel(px) ELSE prev_level,
   prev0 |-> prev_level, held0 |-> held, closed0 |-> closed, flattened0 |-> flattened,
   log |-> r.log, result |-> r.result, nwalk |-> r.nwalk, mid |-> r.mid]

\* GridCaseD.__init__ (called by main): held = {}, prev_level = 5, buy L5.
Init ==
  /\ OffExcept({"SOL"})
  /\ prev_level = StartLevel
  /\ closed = FALSE
  /\ flattened = FALSE
  /\ ticks = 0
  /\ trip = [trend |-> "up", peak |-> StartLevel]
  /\ \E b \in BuyUnit(StartLevel, 0, 0) :
       /\ held = (IF b.raised THEN EmptyHeld ELSE HeldCredit(EmptyHeld, StartLevel, b.qty))
       /\ pc = (IF b.raised THEN "crashed" ELSE "poll")
       /\ faults = b.faults
       /\ last = [op |-> "init", px |-> 0, lv |-> StartLevel, prev0 |-> StartLevel,
                  held0 |-> EmptyHeld, closed0 |-> FALSE, flattened0 |-> FALSE,
                  log |-> <<b.entry>>,
                  result |-> IF b.raised THEN "raised" ELSE "returned",
                  nwalk |-> 0, mid |-> EmptyHeld]

\* The effect of a call with result r on the instance and the history.
Apply(op, px, r) ==
  /\ held' = r.held
  /\ prev_level' = r.prev_level
  /\ faults' = r.faults
  /\ closed' = (closed \/ (op = "on_price" /\ r.result = "exit"))
  /\ flattened' = (flattened \/ (r.flat /\ r.result # "raised"))
  /\ ticks' = ticks + 1
  /\ trip' = (IF op = "on_price" THEN TripAfter(trip, prev_level, PriceToLevel(px)) ELSE trip)
  /\ last' = LastCall(op, px, r)
  /\ Frame({"SOL"})

\* ------------------------------------------------------- main's polling loop
\* main: tk = ticker(); grid.on_price(last) inside try/except SystemExit;
\* when the call returns and the timeout test fails, time.sleep and the next
\* iteration.
MainOnPrice ==
  /\ pc = "poll"
  /\ ticks < MaxTicks
  /\ \E px \in Prices : \E r \in OnPrice(held, prev_level, faults, px) :
       /\ Apply("on_price", px, r)
       /\ pc' = CASE r.result = "exit"   -> "boundary"
                  [] r.result = "raised" -> "crashed"
                  [] OTHER               -> "poll"

\* main: on_price has returned and (time.time() - t0) > MAX_MINUTES * 60:
\* flatten_all, then break.
MainTimeUp ==
  /\ pc = "poll"
  /\ last.op = "on_price"
  /\ \E r \in Flatten(held, prev_level, faults) :
       /\ Apply("flatten_all", 0, r)
       /\ pc' = IF r.result = "raised" THEN "crashed" ELSE "timeup"

\* __main__: KeyboardInterrupt is caught outside main; nothing else is done.
MainInterrupt ==
  /\ pc = "poll"
  /\ pc' = "interrupted"
  /\ UNCHANGED <<held, prev_level, closed, flattened, ticks, faults, trip, last>>
  /\ Frame({"SOL"})

Next == MainOnPrice \/ MainTimeUp \/ MainInterrupt

\* The program: main() of SOL.py.
Spec == Init /\ [][Next]_vars

\* ------------------------------------------------- the instance, any caller
\* A caller that holds the GridCaseD instance calls on_price with any price,
\* at any time, also after a call has raised SystemExit or an error.
CallOnPrice ==
  /\ pc = "poll"
  /\ ticks < MaxCalls
  /\ \E px \in Prices : \E r \in OnPrice(held, prev_level, faults, px) :
       Apply("on_price", px, r)
  /\ UNCHANGED pc

\* A caller calls flatten_all, at any time.
CallFlattenAll ==
  /\ pc = "poll"
  /\ ticks < MaxCalls
  /\ \E r \in Flatten(held, prev_level, faults) : Apply("flatten_all", 0, r)
  /\ UNCHANGED pc

NextCalls == CallOnPrice \/ CallFlattenAll

\* The class GridCaseD under any sequence of calls of its methods.
SpecCalls == Init /\ [][NextCalls]_vars

\* ====================================================== the level mappings
\* The three level mappings of the repository as functions of the grid's
\* bounds and the price.  Prices and bounds are integers, the arithmetic is
\* exact (a quotient is kept as numerator and denominator).

\* Python's round() of num / den (den > 0): the nearest integer, a tie goes
\* to the even neighbour.
RoundHalfEven(num, den) ==
  LET q == num \div den
      r == num % den
  IN  IF 2 * r < den THEN q
      ELSE IF 2 * r > den THEN q + 1
      ELSE IF q % 2 = 0 THEN q ELSE q + 1

\* sol_po.py, GridState.price_to_level: level_prices[0] = px_low and
\* level_prices[-1] = px_high; int(round(rel * levels)), clamped.
GridStatePriceToLevel(px_low, px_high, levels, px) ==
  IF px <= px_low THEN 0
  ELSE IF px >= px_high THEN levels
  ELSE Max(0, Min(levels, RoundHalfEven((px - px_low) * levels, px_high - px_low)))

\* Grid.level_of without the two guards of the bounds.
LevelOf_NoGuards(gmin, gmax, price) ==
  RoundHalfEven((price - gmin) * NLevels, gmax - gmin)

\* sol_usdt_success.py, Grid.level_of: round(rel * 10), no clamp.
LevelOf(gmin, gmax, price) ==
  IF price <= gmin THEN 0
  ELSE IF price >= gmax THEN NLevels
  ELSE RoundHalfEven((price - gmin) * NLevels, gmax - gmin)

\* Bounds and prices of the queries: all lower < upper within 0..LvMax, all
\* prices from one below to one above that range.
LvMax == 12
LvQueries ==
  { [fn |-> "none", lower |-> lo, upper |-> up, px |-> p, lv |-> -1] :
      lo \in 0..LvMax, up \in 0..LvMax, p \in (-1)..(LvMax + 1) }

\* A grid and a price are chosen; no mapping is applied yet.
InitLevels ==
  /\ OffExcept({"levels"})
  /\ lvq \in {q \in LvQueries : q.lower < q.upper}

\* The mapping fn is applied to the query and returns lv.
Answer(fn, lv) ==
  /\ lvq.fn = "none"
  /\ lvq' = [lvq EXCEPT !.fn = fn, !.lv = lv]
  /\ Frame({"levels"})

ApplyPriceToLevel ==
  Answer("GridCaseD.price_to_level", PriceToLevelOf(lvq.lower, lvq.upper, lvq.px))

ApplyGridStatePriceToLevel ==
  Answer("GridState.price_to_level",
         GridStatePriceToLevel(lvq.lower, lvq.upper, NLevels, lvq.px))

ApplyLevelOf ==
  Answer("Grid.level_of", LevelOf(lvq.lower, lvq.upper, lvq.px))

NextLevels == ApplyPriceToLevel \/ ApplyGridStatePriceToLevel \/ ApplyLevelOf

\* The level mappings, each applied to any grid and any price.
SpecLevels == InitLevels /\ [][NextLevels]_vars

\* ============================================================== sol_po.py
\* The multi-grid manager of sol_po.py: GridState, GridManager and the loop
\* of main.  A grid opened at the price c has the bounds c * (1 -/+
\* GRID_BOUNDS_PCT); they are kept exactly, in units of 1 / PO_BOUNDS_DEN.
\* Scaled configuration: GRID_BOUNDS_PCT is 1 / PO_BOUNDS_DEN (0.0001 in the
\* source), MAX_CONCURRENT_GRIDS is 2 (6 in the source), the tags cycle
\* through PO_TAG_CYCLE letters (26 in the source) and NEW_GRID_MINUTES is
\* {0, 15} (of {0, 15, 30, 45}).
PO_GRID_LEVELS == 10
PO_START_LEVEL == 5
PO_MAX_CONCURRENT_GRIDS == 2
PO_TAG_CYCLE == 3
PO_BOUNDS_DEN == 20
PO_ORDER_USDT_FIXED == 10
PO_USE_BALANCE_PERCENT == FALSE
PO_PCT_OF_BAL_DEN == 10
NEW_GRID_MINUTES == {0, 15}

\* Iterations of the loop of main in one run.
PoMaxTicks == 4
\* now.minute at an iteration: two minutes of NEW_GRID_MINUTES and another.
PoMinutes == {0, 7, 15}
\* get_ticker_price at an iteration.
PoPrices == {95, 100, 102, 105}
\* get_balance_usdt, read in balance-percentage mode only.
PoBalances == IF PO_USE_BALANCE_PERCENT THEN {5, 200} ELSE {0}

\* GridState.__init__
GridState(tag, usdt_each, px_center) ==
  [tag |-> tag, usdt_each |-> usdt_each, px_center |-> px_center,
   levels_holding |-> {PO_START_LEVEL}, last_level |-> PO_START_LEVEL,
   alive |-> TRUE]

\* GridManager._calc_bounds, in units of 1 / PO_BOUNDS_DEN.
PxLow(g) == g.px_center * (PO_BOUNDS_DEN - 1)
PxHigh(g) == g.px_center * (PO_BOUNDS_DEN + 1)

\* g.price_to_level(px)
PoLevel(g, px) ==
  GridStatePriceToLevel(PxLow(g), PxHigh(g), PO_GRID_LEVELS, px * PO_BOUNDS_DEN)

\* GridManager._next_tag: the letter number next_tag_ord % 26.
NextTag(next_tag_ord) == next_tag_ord % PO_TAG_CYCLE

\* GridManager._usdt_each_order
UsdtEachOrder(bal) ==
  IF PO_USE_BALANCE_PERCENT
  THEN Max(1, bal \div PO_PCT_OF_BAL_DEN)
  ELSE PO_ORDER_USDT_FIXED

\* One line of the order log: an order handed to place_limit_order.
PoOrder(tag, side, level, ok) ==
  [tag |-> tag, side |-> side, level |-> level, ok |-> ok]

\* place_limit_order: the order id is returned, or an exception is raised
\* (quantity below minSz, order rejected, HTTP error).
PlaceLimitOrder(f) ==
  {[ok |-> TRUE, faults |-> f]}
  \cup (IF f < MaxFaults THEN {[ok |-> FALSE, faults |-> f + 1]} ELSE {})

\* The state of the work on one grid: the grid, the order log, the abnormal
\* responses so far, and whether an exception is propagating.
GridWork(g, log, f, raised) == [g |-> g, log |-> log, faults |-> f, raised |-> raised]

\* GridManager._ensure_level_bought
EnsureLevelBought(st, lvl) ==
  IF lvl \in st.g.levels_holding THEN {st}
  ELSE { IF o.ok
         THEN GridWork([st.g EXCEPT !.levels_holding = @ \cup {lvl}],
                       Append(st.log, PoOrder(st.g.tag, "buy", lvl, TRUE)),
                       o.faults, FALSE)
         ELSE GridWork(st.g, Append(st.log, PoOrder(st.g.tag, "buy", lvl, FALSE)),
                       o.faults, TRUE)
         : o \in PlaceLimitOrder(st.faults) }

\* GridManager._ensure_level_sold
EnsureLevelSold(st, lvl) ==
  IF lvl \notin st.g.levels_holding THEN {st}
  ELSE { IF o.ok
         THEN GridWork([st.g EXCEPT !.levels_holding = @ \ {lvl}],
                       Append(st.log, PoOrder(st.g.tag, "sell", lvl, TRUE)),
                       o.faults, FALSE)
         ELSE GridWork(st.g, Append(st.log, PoOrder(st.g.tag, "sell", lvl, FALSE)),
                       o.faults, TRUE)
         : o \in PlaceLimitOrder(st.faults) }

\* GridManager._close_all_levels: the loop over sorted(levels_holding), from
\* position i; an exception of a sell is caught and the loop goes on.
RECURSIVE CloseLoop(_, _, _)
CloseLoop(st, order, i) ==
  IF i > Len(order) THEN {st}
  ELSE UNION { CloseLoop([s EXCEPT !.raised = FALSE], order, i + 1)
               : s \in EnsureLevelSold(st, order[i]) }

\* GridManager._close_all_levels
CloseAllLevels(st) ==
  { [s EXCEPT !.g.alive = FALSE]
    : s \in CloseLoop(st, SortedAsc(st.g.levels_holding), 1) }

\* self.grids[tag] = g: a dict keeps the position of a key it already has.
DictPut(grids, g) ==
  IF \E i \in 1..Len(grids) : grids[i].tag = g.tag
  THEN [i \in 1..Len(grids) |-> IF grids[i].tag = g.tag THEN g ELSE grids[i]]
  ELSE Append(grids, g)

\* The result of maybe_start_new_grid.
SpawnResult(grids, next_tag_ord, last_grid_minute, f, spawned, log) ==
  [grids |-> grids, next_tag_ord |-> next_tag_ord,
   last_grid_minute |-> last_grid_minute, faults |-> f,
   spawned |-> spawned, log |-> log]

\* A variant of SpawnAllowed: the test of the number of grids is off by one.
SpawnAllowed_OffByOne(m, minute_now) ==
  /\ minute_now \in NEW_GRID_MINUTES
  /\ m.last_grid_minute # minute_now
  /\ ~(Len(m.grids) > PO_MAX_CONCURRENT_GRIDS)

\* GridManager.maybe_start_new_grid: none of the three early returns is taken.
SpawnAllowed(m, minute_now) ==
  /\ minute_now \in NEW_GRID_MINUTES
  /\ m.last_grid_minute # minute_now
  /\ ~(Len(m.grids) >= PO_MAX_CONCURRENT_GRIDS)

\* GridManager.maybe_start_new_grid: the possible results of one call.  An
\* exception of the initial buy is caught, and the grid is added anyway.
MaybeStartNewGrid(m, minute_now, px_now) ==
  IF ~SpawnAllowed(m, minute_now)
  THEN { SpawnResult(m.grids, m.next_tag_ord, m.last_grid_minute, m.faults,
                     FALSE, << >>) }
  ELSE { SpawnResult(DictPut(m.grids, s.g), m.next_tag_ord + 1, minute_now,
                     s.faults, TRUE, s.log)
         : s \in UNION { EnsureLevelBought(
                           GridWork(GridState(NextTag(m.next_tag_ord),
                                              UsdtEachOrder(bal), px_now),
                                    << >>, m.faults, FALSE),
                           PO_START_LEVEL)
                         : bal \in PoBalances } }

\* The state of a call of GridManager.on_price.
MgrWork(grids, to_delete, log, f, raised) ==
  [grids |-> grids, to_delete |-> to_delete, log |-> log, faults |-> f,
   raised |-> raised]

\* GridManager.on_price: the body of the loop for the grid at position i.
StepGrid(ms, i, px_now) ==
  LET g == ms.grids[i]
      lvl_now == PoLevel(g, px_now)
      st0 == GridWork(g, ms.log, ms.faults, FALSE)
      Stepped(s) == IF s.raised THEN s ELSE [s EXCEPT !.g.last_level = lvl_now]
      Put(s, del) ==
        MgrWork([ms.grids EXCEPT ![i] = s.g],
                ms.to_delete \cup (IF del THEN {g.tag} ELSE {}),
                s.log, s.faults, s.raised)
  IN  IF ~g.alive
      THEN { [ms EXCEPT !.to_delete = @ \cup {g.tag}] }
      ELSE IF lvl_now = 0 \/ lvl_now = PO_GRID_LEVELS
      THEN { Put(s, TRUE) : s \in CloseAllLevels(st0) }
      ELSE IF lvl_now > g.last_level
      THEN UNION { IF s1.raised
                   THEN { Put(s1, FALSE) }
                   ELSE { Put(Stepped(s2), FALSE) : s2 \in EnsureLevelBought(s1, lvl_now) }
                   : s1 \in (IF g.last_level \in g.levels_holding
                             THEN EnsureLevelSold(st0, g.last_level)
                             ELSE {st0}) }
      ELSE IF lvl_now < g.last_level
      THEN { Put(Stepped(s), FALSE) : s \in EnsureLevelBought(st0, lvl_now) }
      ELSE { Put(Stepped(st0), FALSE) }

\* GridManager.on_price: the loop over self.grids.items(), from position i;
\* an exception ends it.
RECURSIVE StepGrids(_, _, _)
StepGrids(ms, i, px_now) ==
  IF ms.raised \/ i > Len(ms.grids) THEN {ms}
  ELSE UNION { StepGrids(m2, i + 1, px_now) : m2 \in StepGrid(ms, i, px_now) }

\* A variant of PopDeleted: the collected tags are not removed.
PopDeleted_Keep(grids, to_delete) == grids

\* GridManager.on_price: for tag in to_delete: self.grids.pop(tag, None)
PopDeleted(grids, to_delete) ==
  SelectSeq(grids, LAMBDA g : g.tag \notin to_delete)

\* A variant of ManagerOnPrice: last_level is one value shared by the grids
\* (an attribute of the class), the one of the first grid.
ManagerOnPrice_SharedLevel(grids, f, px_now) ==
  { LET gs == IF ms.raised THEN ms.grids ELSE PopDeleted(ms.grids, ms.to_delete)
    IN  [grids     |-> [k \in 1..Len(gs) |->
                          [gs[k] EXCEPT !.last_level = gs[1].last_level]],
         log       |-> ms.log,
         faults    |-> ms.faults,
         result    |-> IF ms.raised THEN "raised" ELSE "returned",
         to_delete |-> ms.to_delete]
    : ms \in StepGrids(MgrWork(grids, {}, << >>, f, FALSE), 1, px_now) }

\* GridManager.on_price: the possible results of one call.
ManagerOnPrice(grids, f, px_now) ==
  { [grids     |-> IF ms.raised THEN ms.grids ELSE PopDeleted(ms.grids, ms.to_delete),
     log       |-> ms.log,
     faults    |-> ms.faults,
     result    |-> IF ms.raised THEN "raised" ELSE "returned",
     to_delete |-> ms.to_delete]
    : ms \in StepGrids(MgrWork(grids, {}, << >>, f, FALSE), 1, px_now) }

\* main: mgr = GridManager()
InitPo ==
  /\ OffExcept({"sol_po"})
  /\ mgr = [MgrOff EXCEPT !.pc = "poll"]
  /\ mgrLast = MgrNoTick

\* main, one iteration of the loop in which get_ticker_price raises: the
\* except branch sleeps, nothing else is done.
PoTickNoPrice ==
  /\ mgr.pc = "poll"
  /\ mgr.ticks < PoMaxTicks
  /\ mgr.faults < MaxFaults
  /\ mgr' = [mgr EXCEPT !.ticks = @ + 1, !.faults = @ + 1]
  /\ mgrLast' = [MgrNoTick EXCEPT !.mgr0 = mgr, !.grids1 = mgr.grids,
                                  !.result = "skipped"]
  /\ Frame({"sol_po"})

\* main, one iteration of the loop: the price and the minute are read,
\* maybe_start_new_grid, then on_price; an exception of on_price is caught
\* by main and the loop goes on.
PoTick ==
  /\ mgr.pc = "poll"
  /\ mgr.ticks < PoMaxTicks
  /\ \E px \in PoPrices, minute \in PoMinutes :
       \E s \in MaybeStartNewGrid(mgr, minute, px) :
         \E r \in ManagerOnPrice(s.grids, s.faults, px) :
           /\ mgr' = [pc |-> "poll", grids |-> r.grids,
                      next_tag_ord |-> s.next_tag_ord,
                      last_grid_minute |-> s.last_grid_minute,
                      faults |-> r.faults, ticks |-> mgr.ticks + 1]
           /\ mgrLast' = [fetched |-> TRUE, minute |-> minute, px |-> px,
                          mgr0 |-> mgr, spawned |-> s.spawned,
                          spawn_log |-> s.log, grids1 |-> s.grids,
                          log |-> r.log, result |-> r.result,
                          to_delete |-> r.to_delete]
  /\ Frame({"sol_po"})

NextPo == PoTick \/ PoTickNoPrice

\* The program: main() of sol_po.py.
SpecPo == InitPo /\ [][NextPo]_vars

\* ====================================================== sol_usdt_positive.py
\* The multi-grid loop of sol_usdt_positive.py: class Grid and main.  A grid
\* opened at the price p0 has the bounds p0 * (1 -/+ GRID_BOUND_PCT) and 10
\* slots; bounds, step and slot prices are kept exactly, in units of
\* 1 / PvScale.  Quantities are counted in lots, PV_LOTS lots to the coin.
\* Scaled configuration: GRID_BOUND_PCT is 1 / PV_BOUND_DEN (0.003 in the
\* source) and MAX_CONCURRENT_GRIDS is 2 (10 in the source).
PV_GRID_SLOTS == 10
PV_START_SLOT == 5
PV_MAX_CONCURRENT_GRIDS == 2
PV_BOUND_DEN == 20
PV_USE_BALANCE_PERCENT == TRUE
PV_FIXED_USDT_PER_ORDER == 10
PV_BALANCE_PCT_DEN == 10
PV_MIN_NOTIONAL_USDT == 5
PV_LOTS == 100
PvScale == PV_BOUND_DEN * (PV_GRID_SLOTS \div 2)

\* Iterations of the loop of main in one run.
PvMaxTicks == 3
\* get_ticker_last at an iteration.
PvPrices == {95, 100, 102, 105}
\* get_usdt_balance: a balance whose tenth is below MIN_NOTIONAL_USDT, and
\* one whose tenth is above it.
PvBalances == {20, 100}

\* Grid.__init__: self.lower, self.upper, self.step, self.levels[k]
PvLower(g) == g.p0 * (PV_BOUND_DEN - 1) * (PV_GRID_SLOTS \div 2)
PvUpper(g) == g.p0 * (PV_BOUND_DEN + 1) * (PV_GRID_SLOTS \div 2)
PvStep(g) == (PvUpper(g) - PvLower(g)) \div PV_GRID_SLOTS
PvLevelPrice(g, k) == PvLower(g) + k * PvStep(g)

\* Grid.slot_of_price: int(round((price - lower) / step)), clamped.
SlotOfPrice(g, price) ==
  Max(0, Min(PV_GRID_SLOTS,
             RoundHalfEven(price * PvScale - PvLower(g), PvStep(g))))

\* Grid.calc_order_size for the balance read: the notional in USDT and the
\* size, quantized down to the lot.  ref_price is in units of 1 / PvScale.
CalcOrderSize(bal, ref_price) ==
  LET usdt == IF PV_USE_BALANCE_PERCENT
              THEN Max(bal \div PV_BALANCE_PCT_DEN, PV_MIN_NOTIONAL_USDT)
              ELSE Max(PV_FIXED_USDT_PER_ORDER, PV_MIN_NOTIONAL_USDT)
  IN  [bal |-> bal, usdt |-> usdt,
       sz |-> (usdt * PvScale * PV_LOTS) \div ref_price]

\* okx_request: the response, or an exception (HTTP error, code != "0").
OkxRequest(f) ==
  {[ok |-> TRUE, faults |-> f]}
  \cup (IF f < MaxFaults THEN {[ok |-> FALSE, faults |-> f + 1]} ELSE {})

\* One line of the order log: an order handed to place_order.
PvOrder(name, side, slot, qty, ok) ==
  [name |-> name, side |-> side, slot |-> slot, qty |-> qty, ok |-> ok]

\* holdings, a dict slot -> quantity in insertion order: a sequence of
\* pairs <<slot, quantity>>.
HoldingsGet(h, k) ==
  IF \E i \in 1..Len(h) : h[i][1] = k
  THEN (CHOOSE e \in {h[i] : i \in 1..Len(h)} : e[1] = k)[2]
  ELSE 0
HoldingsHas(h, k) == \E i \in 1..Len(h) : h[i][1] = k
HoldingsSet(h, k, qty) ==
  IF HoldingsHas(h, k)
  THEN [i \in 1..Len(h) |-> IF h[i][1] = k THEN <<k, qty>> ELSE h[i]]
  ELSE Append(h, <<k, qty>>)
HoldingsPop(h, k) == SelectSeq(h, LAMBDA e : e[1] # k)

\* The state of the work on one grid: the grid, the order log, the sizings
\* made, the abnormal responses so far, whether an exception propagates.
PvWork(g, log, sizings, f, raised) ==
  [g |-> g, log |-> log, sizings |-> sizings, faults |-> f, raised |-> raised]

\* Grid.buy_at_slot
BuyAtSlot(w, k, qty) ==
  { IF o.ok
    THEN PvWork([w.g EXCEPT !.holdings = HoldingsSet(@, k, HoldingsGet(@, k) + qty)],
                Append(w.log, PvOrder(w.g.name, "buy", k, qty, TRUE)),
                w.sizings, o.faults, FALSE)
    ELSE PvWork(w.g, Append(w.log, PvOrder(w.g.name, "buy", k, qty, FALSE)),
                w.sizings, o.faults, TRUE)
    : o \in OkxRequest(w.faults) }

\* Grid.sell_at_slot
SellAtSlot(w, k, qty) ==
  IF qty <= 0 THEN {w}
  ELSE { IF o.ok
         THEN LET left == Max(0, HoldingsGet(w.g.holdings, k) - qty)
              IN  PvWork([w.g EXCEPT !.holdings =
                            IF left = 0 THEN HoldingsPop(@, k)
                            ELSE HoldingsSet(@, k, left)],
                         Append(w.log, PvOrder(w.g.name, "sell", k, qty, TRUE)),
                         w.sizings, o.faults, FALSE)
         ELSE PvWork(w.g, Append(w.log, PvOrder(w.g.name, "sell", k, qty, FALSE)),
                     w.sizings, o.faults, TRUE)
         : o \in OkxRequest(w.faults) }

\* qty = self.calc_order_size(self.levels[k]); if qty > 0: buy_at_slot(k, qty)
\* The balance is read with a request of its own.
SizeAndBuy(w, k) ==
  UNION {
    IF ~b.ok
    THEN { [w EXCEPT !.faults = b.faults, !.raised = TRUE] }
    ELSE UNION {
           LET c == CalcOrderSize(bal, PvLevelPrice(w.g, k))
               w1 == [w EXCEPT !.faults = b.faults, !.sizings = Append(@, c)]
           IN  IF c.sz > 0 THEN BuyAtSlot(w1, k, c.sz) ELSE {w1}
           : bal \in PvBalances }
    : b \in (IF PV_USE_BALANCE_PERCENT THEN OkxRequest(w.faults)
             ELSE {[ok |-> TRUE, faults |-> w.faults]}) }

\* Grid.__init__: the possible results; raised when a request raised.
NewGrid(name, p0, f) ==
  SizeAndBuy(PvWork([name |-> name, p0 |-> p0, active |-> TRUE,
                     last_slot |-> PV_START_SLOT, holdings |-> << >>],
                    << >>, << >>, f, FALSE),
             PV_START_SLOT)

\* Grid.close_all: the loop over list(self.holdings.items()), from position
\* i; an exception of a sell leaves the loop and the method.
RECURSIVE PvCloseLoop(_, _, _)
PvCloseLoop(w, items, i) ==
  IF w.raised \/ i > Len(items) THEN {w}
  ELSE UNION { PvCloseLoop(w2, items, i + 1)
               : w2 \in SellAtSlot(w, items[i][1], items[i][2]) }

\* Grid.close_all
PvCloseAll(w) ==
  { IF w2.raised THEN w2
    ELSE [w2 EXCEPT !.g.holdings = << >>, !.g.active = FALSE]
    : w2 \in PvCloseLoop(w, w.g.holdings, 1) }

\* A variant of PvOnPrice: the holding of the slot that is left is kept.
PvOnPrice_KeepsPrevious(w, price) ==
  LET g == w.g
      k == SlotOfPrice(g, price)
  IN  IF ~g.active THEN {w}
      ELSE IF k = 0 \/ k = PV_GRID_SLOTS THEN PvCloseAll(w)
      ELSE IF k = g.last_slot THEN {w}
      ELSE { IF w2.raised THEN w2 ELSE [w2 EXCEPT !.g.last_slot = k]
             : w2 \in SizeAndBuy(w, k) }

\* A variant of PvOnPrice: the test of self.active is missing.
PvOnPrice_NoActiveTest(w, price) ==
  LET g == w.g
      k == SlotOfPrice(g, price)
      prev == g.last_slot
  IN  IF k = 0 \/ k = PV_GRID_SLOTS THEN PvCloseAll(w)
      ELSE IF k = prev THEN {w}
      ELSE UNION {
             IF w1.raised THEN {w1}
             ELSE { IF w2.raised THEN w2 ELSE [w2 EXCEPT !.g.last_slot = k]
                    : w2 \in SizeAndBuy(w1, k) }
             : w1 \in (IF HoldingsGet(g.holdings, prev) > 0
                       THEN SellAtSlot(w, prev, HoldingsGet(g.holdings, prev))
                       ELSE {w}) }

\* Grid.on_price
PvOnPrice(w, price) ==
  LET g == w.g
      k == SlotOfPrice(g, price)
      prev == g.last_slot
  IN  IF ~g.active THEN {w}
      ELSE IF k = 0 \/ k = PV_GRID_SLOTS THEN PvCloseAll(w)
      ELSE IF k = prev THEN {w}
      ELSE UNION {
             IF w1.raised THEN {w1}
             ELSE { IF w2.raised THEN w2 ELSE [w2 EXCEPT !.g.last_slot = k]
                    : w2 \in SizeAndBuy(w1, k) }
             : w1 \in (IF HoldingsGet(g.holdings, prev) > 0
                       THEN SellAtSlot(w, prev, HoldingsGet(g.holdings, prev))
                       ELSE {w}) }

\* The state of one iteration of main.
PvIter(grids, marks, count, tried, spawned, spawn_log, log, sizings, f, raised) ==
  [grids |-> grids, started_marks |-> marks, grid_count |-> count,
   tried |-> tried, spawned |-> spawned, spawn_log |-> spawn_log,
   log |-> log, sizings |-> sizings, faults |-> f, raised |-> raised]

\* A variant of PvMayOpen: the number of grids is not tested.
PvMayOpen_NoLimit(m, key, window) == window /\ key \notin m.started_marks

\* main: the two tests that guard the opening of a grid.
PvMayOpen(m, key, window) ==
  /\ window
  /\ key \notin m.started_marks
  /\ Len(m.grids) < PV_MAX_CONCURRENT_GRIDS

\* main, the opening of a grid: get_ticker_last, Grid(...), grids.append.
PvOpen(m, key, window, px) ==
  IF ~PvMayOpen(m, key, window)
  THEN { PvIter(m.grids, m.started_marks, m.grid_count, FALSE, FALSE,
                << >>, << >>, << >>, m.faults, FALSE) }
  ELSE UNION {
         IF ~t.ok
         THEN { PvIter(m.grids, m.started_marks, m.grid_count, TRUE, FALSE,
                       << >>, << >>, << >>, t.faults, TRUE) }
         ELSE { IF w.raised
                THEN PvIter(m.grids, m.started_marks, m.grid_count, TRUE, FALSE,
                            w.log, << >>, w.sizings, w.faults, TRUE)
                ELSE PvIter(Append(m.grids, w.g), m.started_marks \cup {key},
                            m.grid_count + 1, TRUE, TRUE,
                            w.log, << >>, w.sizings, w.faults, FALSE)
                : w \in NewGrid(m.grid_count, px, t.faults) }
         : t \in OkxRequest(m.faults) }

\* main: for g in grids: if g.active: g.on_price(price), from position i.
RECURSIVE PvDispatch(_, _, _)
PvDispatch(it, i, px) ==
  IF it.raised \/ i > Len(it.grids) THEN {it}
  ELSE UNION {
         PvDispatch([it EXCEPT !.grids[i] = w.g, !.log = w.log,
                               !.sizings = w.sizings, !.faults = w.faults,
                               !.raised = w.raised], i + 1, px)
         : w \in PvOnPrice(PvWork(it.grids[i], it.log, it.sizings, it.faults, FALSE), px) }

\* main: get_ticker_last, the dispatch, and grids = [g for g in grids if
\* g.active]; an exception skips the rest of the iteration.
PvUpdate(it, px) ==
  IF it.raised THEN {it}
  ELSE UNION {
         IF ~t.ok THEN { [it EXCEPT !.faults = t.faults, !.raised = TRUE] }
         ELSE { IF d.raised THEN d
                ELSE [d EXCEPT !.grids = SelectSeq(@, LAMBDA g : g.active)]
                : d \in PvDispatch([it EXCEPT !.faults = t.faults], 1, px) }
         : t \in OkxRequest(it.faults) }

\* main before the loop.
InitPv ==
  /\ OffExcept({"sol_usdt_positive"})
  /\ pv = [PvMainOff EXCEPT !.pc = "poll"]
  /\ pvLast = PvNoTick

\* The clock at the next iteration: the same opening window (or the same
\* time outside one), the end of the window, or a new opening window.
PvClocks(m) ==
  {[key |-> m.key, window |-> m.window], [key |-> m.key, window |-> FALSE],
   [key |-> m.key + 1, window |-> TRUE]}

\* main, one iteration of the loop.
PvTick ==
  /\ pv.pc = "poll"
  /\ pv.ticks < PvMaxTicks
  /\ \E px \in PvPrices, c \in PvClocks(pv) :
       \E o \in PvOpen(pv, c.key, c.window, px) :
         \E r \in PvUpdate(o, px) :
           /\ pv' = [pc |-> "poll", grids |-> r.grids,
                     started_marks |-> r.started_marks,
                     grid_count |-> r.grid_count, key |-> c.key,
                     window |-> c.window, faults |-> r.faults,
                     ticks |-> pv.ticks + 1]
           /\ pvLast' = [px |-> px, pv0 |-> pv, tried |-> r.tried,
                         spawned |-> r.spawned, spawn_log |-> r.spawn_log,
                         log |-> r.log, sizings |-> r.sizings,
                         result |-> IF r.raised THEN "raised" ELSE "returned"]
  /\ Frame({"sol_usdt_positive"})

NextPv == PvTick

\* The program: main() of sol_usdt_positive.py.
SpecPv == InitPv /\ [][NextPv]_vars

\* ------------------------------------------------- the two grid managers
\* One of the two multi-grid programs runs.
InitManagers == InitPo \/ InitPv
NextManagers == PoTick \/ PoTickNoPrice \/ PvTick
SpecManagers == InitManagers /\ [][NextManagers]_vars

\* ======================================================= sol_usdt_success.py
\* Prices are integers.  A grid's gmin and gmax are kept in units of
\* 1 / SU_RANGE_DEN: GRID_RANGE is 1 / SU_RANGE_DEN here (0.003 in the
\* source), so a grid opened at 100 has its levels 0..10 at 95..105.
\* label_cycle has SU_LABELS labels (8 in the source).  Quantities are whole
\* lots, SU_LOTS to the coin.
SU_SLOTS == 10
SU_RANGE_DEN == 20
SU_MIN_CAP == 10
SU_LABELS == 2
SU_LOTS == 2

\* Iterations of the loop of main in one run.
SuMaxTicks == 3
\* get_price at an iteration.
SuPrices == {95, 101, 102, 105}
\* INSTR_RULES["minSz"] in lots.
SU_MIN_SZ == 2

\* A request of requests.get / requests.post: the answer is a success, a
\* body that reports a rejection (code # "0", no ordId), or an exception.
SuRequest(f) ==
  {[kind |-> "ok", faults |-> f]}
  \cup (IF f < MaxFaults
        THEN {[kind |-> k, faults |-> f + 1] : k \in {"rejected", "raised"}}
        ELSE {})

\* get_usdt_balance: a balance above the 10 USDT test of _open_if_absent,
\* a balance below it, or an exception.  The last two count among the
\* abnormal answers.
SuGetUsdtBalance(f) ==
  {[kind |-> "ok", total_cap |-> 1000, faults |-> f]}
  \cup (IF f < MaxFaults
        THEN {[kind |-> "ok", total_cap |-> 5, faults |-> f + 1],
              [kind |-> "raised", total_cap |-> 0, faults |-> f + 1]}
        ELSE {})

\* Grid.level_of, with gmin = p0 - 5 * step and gmax = p0 + 5 * step.
SuLevel(g, price) ==
  LevelOf(g.p0 * (SU_RANGE_DEN - 1), g.p0 * (SU_RANGE_DEN + 1),
          price * SU_RANGE_DEN)

\* list(self.positions.keys()): positions is a sequence of
\* <<level, qty, ordId is set>> in insertion order.
SuKeys(positions) == [i \in 1..Len(positions) |-> positions[i][1]]

\* Grid._open_if_absent.  w is the work on one grid: the grid, the order
\* log, minSz, the abnormal responses so far, whether an exception
\* propagates.
SuOpenIfAbsent(w, level, px) ==
  IF w.raised \/ ~w.g.active
     \/ (\E i \in 1..Len(w.g.positions) : w.g.positions[i][1] = level)
  THEN {w}
  ELSE UNION {
    IF b.kind = "raised"
    THEN { [w EXCEPT !.faults = b.faults, !.raised = TRUE] }
    ELSE
      IF b.total_cap < SU_MIN_CAP THEN { [w EXCEPT !.faults = b.faults] }
      ELSE LET unit == b.total_cap \div SU_SLOTS
               est == (unit * SU_LOTS) \div px
           IN  UNION {
                 IF o.kind = "raised"
                 THEN { [w EXCEPT !.faults = o.faults, !.raised = TRUE,
                                  !.log = Append(@,
                                    [label |-> w.g.label, side |-> "buy",
                                     level |-> level, qty |-> 0,
                                     accepted |-> FALSE, recorded |-> FALSE])] }
                 ELSE LET ordId == o.kind = "ok"
                      IN  { LET qty_real == IF r.fill <= 0 THEN est ELSE r.fill
                            IN  [w EXCEPT
                                   !.faults = r.faults,
                                   !.g.positions = Append(@, <<level, qty_real, ordId>>),
                                   !.g.opened = @ \cup {level},
                                   !.log = Append(@,
                                     [label |-> w.g.label, side |-> "buy",
                                      level |-> level, qty |-> qty_real,
                                      accepted |-> ordId, recorded |-> TRUE])]
                            : r \in {[fill |-> IF ordId THEN est ELSE 0,
                                      faults |-> o.faults]}
                                    \cup (IF ordId /\ o.faults < MaxFaults
                                          THEN {[fill |-> 0, faults |-> o.faults + 1]}
                                          ELSE {}) }
                 : o \in SuRequest(b.faults) }
    : b \in SuGetUsdtBalance(w.faults) }

\* A variant of SuClose: the sell is placed and the level stays in positions.
SuClose_KeepsLevel(w, level) ==
  IF w.raised \/ ~(\E i \in 1..Len(w.g.positions) : w.g.positions[i][1] = level)
  THEN {w}
  ELSE LET qty == (CHOOSE e \in {w.g.positions[i] : i \in 1..Len(w.g.positions)} :
                     e[1] = level)[2]
       IN  { [w EXCEPT
                !.faults = o.faults,
                !.raised = (o.kind = "raised"),
                !.log = Append(@, [label |-> w.g.label, side |-> "sell",
                                   level |-> level, qty |-> qty,
                                   accepted |-> (o.kind = "ok"),
                                   recorded |-> FALSE])]
             : o \in SuRequest(w.faults) }

\* A variant of SuClose: the test of minSz is missing.
SuClose_NoMinSzTest(w, level) ==
  IF w.raised \/ ~(\E i \in 1..Len(w.g.positions) : w.g.positions[i][1] = level)
  THEN {w}
  ELSE LET qty == (CHOOSE e \in {w.g.positions[i] : i \in 1..Len(w.g.positions)} :
                     e[1] = level)[2]
           popped == SelectSeq(w.g.positions, LAMBDA e : e[1] # level)
       IN  { [w EXCEPT
                !.faults = o.faults,
                !.raised = (o.kind = "raised"),
                !.g.positions = IF o.kind = "raised" THEN @ ELSE popped,
                !.log = Append(@, [label |-> w.g.label, side |-> "sell",
                                   level |-> level, qty |-> qty,
                                   accepted |-> (o.kind = "ok"),
                                   recorded |-> FALSE])]
             : o \in SuRequest(w.faults) }

\* Grid._close: the answer of the sell is not looked at.
SuClose(w, level) ==
  IF w.raised \/ ~(\E i \in 1..Len(w.g.positions) : w.g.positions[i][1] = level)
  THEN {w}
  ELSE LET qty == (CHOOSE e \in {w.g.positions[i] : i \in 1..Len(w.g.positions)} :
                     e[1] = level)[2]
           popped == SelectSeq(w.g.positions, LAMBDA e : e[1] # level)
       IN  IF w.min_sz > 0 /\ qty < w.min_sz
           THEN { [w EXCEPT !.g.positions = popped] }
           ELSE { [w EXCEPT
                     !.faults = o.faults,
                     !.raised = (o.kind = "raised"),
                     !.g.positions = IF o.kind = "raised" THEN @ ELSE popped,
                     !.log = Append(@, [label |-> w.g.label, side |-> "sell",
                                        level |-> level, qty |-> qty,
                                        accepted |-> (o.kind = "ok"),
                                        recorded |-> FALSE])]
                  : o \in SuRequest(w.faults) }

\* A loop of Grid over the levels lvs[i..]: _close of each (op = "close") or
\* _open_if_absent of each at px (op = "open").
RECURSIVE SuEach(_, _, _, _, _)
SuEach(w, op, lvs, i, px) ==
  IF i > Len(lvs) THEN {w}
  ELSE UNION { SuEach(w1, op, lvs, i + 1, px)
               : w1 \in IF op = "close" THEN SuClose(w, lvs[i])
                        ELSE SuOpenIfAbsent(w, lvs[i], px) }

\* Grid._close_all
SuCloseAll(w) ==
  { IF w1.raised THEN w1 ELSE [w1 EXCEPT !.g.active = FALSE]
    : w1 \in SuEach(w, "close", SuKeys(w.g.positions), 1, 0) }

\* Grid.on_price
SuOnPrice(w, price) ==
  IF w.raised \/ ~w.g.active THEN {w}
  ELSE LET lvl == SuLevel(w.g, price)
           keys == SuKeys(w.g.positions)
       IN  IF lvl = SU_SLOTS
           THEN UNION { SuCloseAll(w1)
                        : w1 \in SuEach(w, "close",
                                        SelectSeq(keys, LAMBDA lv : 5 <= lv /\ lv <= 9),
                                        1, price) }
           ELSE IF lvl = 0 THEN SuCloseAll(w)
           ELSE UNION {
                  UNION { IF lvl > 5
                          THEN SuEach(w2, "open",
                                      [k \in 1..(Min(lvl, 9) - 4) |-> k + 4], 1, price)
                          ELSE {w2}
                          : w2 \in IF 1 <= lvl /\ lvl < 5
                                   THEN SuOpenIfAbsent(w1, lvl, price)
                                   ELSE {w1} }
                  : w1 \in SuEach(w, "close",
                                  SelectSeq(keys, LAMBDA lv : lvl - lv = -1),
                                  1, price) }

\* main, for g in list(grids.values()): g.on_price(price), from position i.
\* it is the state of the iteration: grids, the order log, minSz, the
\* abnormal responses, whether an exception left the loop.
RECURSIVE SuDispatch(_, _, _)
SuDispatch(it, i, price) ==
  IF it.raised \/ i > Len(it.grids) THEN {it}
  ELSE UNION { SuDispatch([it EXCEPT !.grids[i] = w.g, !.log = w.log,
                                    !.faults = w.faults, !.raised = w.raised],
                          i + 1, price)
               : w \in SuOnPrice([g |-> it.grids[i], log |-> it.log,
                                  min_sz |-> it.min_sz, faults |-> it.faults,
                                  raised |-> FALSE], price) }

\* main, the start of a new grid: Grid(label, price) buys level 5, then
\* grids[label] is set (a dict keeps the position of a key it already has).
SuSpawn(it, key, window, price) ==
  IF it.raised \/ ~(window /\ key # it.last_spawn_key) THEN {it}
  ELSE LET label == it.next_label_idx % SU_LABELS
       IN  { IF w.raised
             THEN [it EXCEPT !.log = w.log, !.faults = w.faults, !.raised = TRUE,
                             !.next_label_idx = @ + 1]
             ELSE [it EXCEPT
                     !.log = w.log, !.faults = w.faults,
                     !.next_label_idx = @ + 1, !.last_spawn_key = key,
                     !.spawned = TRUE,
                     !.dropped = SelectSeq(it.grids,
                                           LAMBDA g : g.label = label),
                     !.grids = IF \E i \in 1..Len(@) : @[i].label = label
                               THEN [i \in 1..Len(@) |->
                                       IF @[i].label = label THEN w.g ELSE @[i]]
                               ELSE Append(@, w.g)]
             : w \in SuOpenIfAbsent(
                       [g |-> [label |-> label, p0 |-> price,
                               positions |-> << >>, active |-> TRUE,
                               opened |-> {}],
                        log |-> it.log, min_sz |-> it.min_sz,
                        faults |-> it.faults, raised |-> FALSE],
                       5, price) }

\* A variant of SuIteration: when get_price fails the iteration goes on with
\* the price of the iteration before, if there was one.
SuIteration_IgnoresFailure(m, fetched, price, key, window) ==
  LET it0 == [grids |-> m.grids, next_label_idx |-> m.next_label_idx,
              last_spawn_key |-> m.last_spawn_key, min_sz |-> m.min_sz,
              log |-> << >>, faults |-> m.faults, raised |-> FALSE,
              spawned |-> FALSE, dropped |-> << >>]
  IN  IF ~fetched /\ price = 0 THEN {it0}
      ELSE UNION { SuSpawn(d, key, window, price)
                   : d \in SuDispatch(it0, 1, price) }

\* main, one iteration of the loop: fetched is whether get_price returned.
SuIteration(m, fetched, price, key, window) ==
  LET it0 == [grids |-> m.grids, next_label_idx |-> m.next_label_idx,
              last_spawn_key |-> m.last_spawn_key, min_sz |-> m.min_sz,
              log |-> << >>, faults |-> m.faults, raised |-> FALSE,
              spawned |-> FALSE, dropped |-> << >>]
  IN  IF ~fetched THEN {it0}
      ELSE UNION { SuSpawn(d, key, window, price)
                   : d \in SuDispatch(it0, 1, price) }

\* main before the loop: INSTR_RULES is read once, or left None (min_sz is
\* 0) when get_instrument_info raises, which counts among the abnormal
\* answers.
InitSu ==
  /\ OffExcept({"sol_usdt_success"})
  /\ su \in {[SuMainOff EXCEPT !.pc = "poll", !.min_sz = SU_MIN_SZ],
              [SuMainOff EXCEPT !.pc = "poll", !.faults = 1]}
  /\ suLast = SuNoTick

\* main, one iteration of the loop.  get_price returns px, or it raises
\* (fetched is FALSE) and price keeps the value of the iteration before (0:
\* it has none yet).
SuTick ==
  /\ su.pc = "poll"
  /\ su.ticks < SuMaxTicks
  /\ \E fetched \in {TRUE} \cup {x \in {FALSE} : su.faults < MaxFaults},
        c \in PvClocks(su) :
       \E px \in IF fetched THEN SuPrices ELSE {su.price} :
         \E r \in SuIteration([su EXCEPT !.faults = IF fetched THEN @ ELSE @ + 1],
                              fetched, px, c.key, c.window) :
           /\ su' = [pc |-> IF r.raised THEN "crashed" ELSE "poll",
                     grids |-> r.grids, next_label_idx |-> r.next_label_idx,
                     last_spawn_key |-> r.last_spawn_key,
                     min_sz |-> su.min_sz, price |-> px, key |-> c.key,
                     window |-> c.window, faults |-> r.faults,
                     ticks |-> su.ticks + 1]
           /\ suLast' = [fetched |-> fetched, px |-> px, su0 |-> su,
                         log |-> r.log, spawned |-> r.spawned,
                         dropped |-> r.dropped,
                         result |-> IF r.raised THEN "raised" ELSE "returned"]
  /\ Frame({"sol_usdt_success"})

NextSu == SuTick

\* The program: main() of sol_usdt_success.py.
SpecSu == InitSu /\ [][NextSu]_vars

\* ========================================================= mexc_cloud_bot.py
\* Prices are integers.  GRID_BOUNDARY_PERCENT is 1 / MX_BOUNDARY_DEN here
\* (0.01 in the source); a grid's bounds and step are kept in units of
\* 1 / (MX_BOUNDARY_DEN * MX_GRID_COUNT), where they are integers.  The
\* quantities and the limit prices of the orders are left out.
MX_GRID_COUNT == 5
MX_BOUNDARY_DEN == 20
MX_INITIAL_LEVEL == 2
MX_TRADING_MINUTES == {0, 10}

\* Iterations of the loop of main in one run.
MxMaxTicks == 3
\* Grids created in one run.
MxMaxGrids == 2
\* get_current_price when it answers.
MxPrices == {94, 100, 103}
\* now.minute at an iteration: two minutes of TRADING_MINUTES (within
\* their first seconds) and one other time.
MxMinutes == {0, 5, 10}

\* MEXCTrader._make_request and the calls built on it: the answer, or None
\* (for place_maker_order_with_retry: after the last retry).
MxRequest(f) ==
  {[ok |-> TRUE, faults |-> f]}
  \cup (IF f < MaxFaults THEN {[ok |-> FALSE, faults |-> f + 1]} ELSE {})

\* grid_info['lower_bound'], ['upper_bound'], ['grid_step'] of create_new_grid
MxBounds(g) ==
  LET lower == g.start_price * (MX_BOUNDARY_DEN - 1) * MX_GRID_COUNT
      upper == g.start_price * (MX_BOUNDARY_DEN + 1) * MX_GRID_COUNT
  IN  [lower |-> lower, upper |-> upper,
       step |-> (upper - lower) \div MX_GRID_COUNT]

\* A BUY of place_maker_order_with_retry for the level of grid i and, when
\* it has an orderId, grid['positions'][level] = {..., 'filled': False}.
\* it is the state of main: the fields of the strategy, the log of the
\* orders handed to place_maker_order_with_retry in the iteration, the
\* abnormal answers so far.
MxBuy(it, i, level) ==
  { LET it1 == [it EXCEPT !.faults = o.faults,
                          !.log = Append(@, [id |-> it.grids[i].id, side |-> "BUY",
                                             level |-> level, ok |-> o.ok])]
    IN  IF o.ok
        THEN [it1 EXCEPT !.grids[i].positions =
                (level :> FALSE) @@ [l \in DOMAIN @ \ {level} |-> @[l]]]
        ELSE it1
    : o \in MxRequest(it.faults) }

\* GridStrategy.sell_position
MxSellPosition(it, i, level) ==
  LET positions == it.grids[i].positions
  IN  IF level \notin DOMAIN positions \/ ~positions[level] THEN {it}
      ELSE { LET it1 == [it EXCEPT !.faults = o.faults,
                                   !.log = Append(@, [id |-> it.grids[i].id,
                                                      side |-> "SELL",
                                                      level |-> level,
                                                      ok |-> o.ok])]
             IN  IF o.ok
                 THEN [it1 EXCEPT !.grids[i].positions =
                         [l \in DOMAIN @ \ {level} |-> @[l]]]
                 ELSE it1
             : o \in MxRequest(it.faults) }

\* A variant of MxCross: on the way up every position is sold, the resting
\* buys included.
RECURSIVE MxCross_SellsResting(_, _, _, _, _)
MxCross_SellsResting(it, i, level, last_level, up) ==
  IF level > last_level THEN {it}
  ELSE LET positions == it.grids[i].positions
       IN  UNION { MxCross_SellsResting(it1, i, level + 1, last_level, up)
                   : it1 \in
                       IF up
                       THEN IF level \notin DOMAIN positions THEN {it}
                            ELSE { [it EXCEPT
                                      !.faults = o.faults,
                                      !.log = Append(@, [id |-> it.grids[i].id,
                                                         side |-> "SELL",
                                                         level |-> level,
                                                         ok |-> o.ok]),
                                      !.grids[i].positions =
                                         IF o.ok
                                         THEN [l \in DOMAIN @ \ {level} |-> @[l]]
                                         ELSE @]
                                   : o \in MxRequest(it.faults) }
                       ELSE IF level \notin DOMAIN positions
                            THEN MxBuy(it, i, level)
                            ELSE {it} }

\* GridStrategy.execute_grid_trade, the loop over the levels level..last:
\* on the way up a filled position is sold and a resting buy is cancelled
\* and deleted; on the way down a level without a position is bought.
RECURSIVE MxCross(_, _, _, _, _)
MxCross(it, i, level, last_level, up) ==
  IF level > last_level THEN {it}
  ELSE LET positions == it.grids[i].positions
       IN  UNION { MxCross(it1, i, level + 1, last_level, up)
                   : it1 \in
                       IF up
                       THEN IF level \notin DOMAIN positions THEN {it}
                            ELSE IF positions[level]
                            THEN MxSellPosition(it, i, level)
                            ELSE { [it EXCEPT !.grids[i].positions =
                                      [l \in DOMAIN @ \ {level} |-> @[l]]] }
                       ELSE IF level \notin DOMAIN positions
                            THEN MxBuy(it, i, level)
                            ELSE {it} }

\* GridStrategy.execute_grid_trade
MxExecuteGridTrade(it, i, from_level, to_level) ==
  { [it2 EXCEPT !.grids[i].current_level = to_level]
    : it2 \in IF to_level > from_level
              THEN UNION { MxBuy(it1, i, to_level)
                           : it1 \in MxCross(it, i, from_level, to_level - 1, TRUE) }
              ELSE IF to_level < from_level
              THEN MxCross(it, i, to_level, from_level - 1, FALSE)
              ELSE {it} }

\* GridStrategy.close_grid: the grid is marked, its orders are cancelled.
MxCloseGrid(it, i) == [it EXCEPT !.grids[i].active = FALSE]

\* GridStrategy.update_single_grid; current_price is in the unit of the
\* bounds.
MxUpdateSingleGrid(it, i, current_price) ==
  LET grid == it.grids[i]
      b == MxBounds(grid)
  IN  IF current_price <= b.lower \/ current_price >= b.upper
      THEN { MxCloseGrid(it, i) }
      ELSE LET target_level ==
                 Max(0, Min(MX_GRID_COUNT - 1,
                            (current_price - b.lower) \div b.step))
           IN  IF target_level # grid.current_level
               THEN MxExecuteGridTrade(it, i, grid.current_level, target_level)
               ELSE {it}

\* GridStrategy.update_grids, the loop over the grids from position i.
RECURSIVE MxUpdateFrom(_, _, _)
MxUpdateFrom(it, i, current_price) ==
  IF i > Len(it.grids) THEN {it}
  ELSE UNION { MxUpdateFrom(it1, i + 1, current_price)
               : it1 \in IF it.grids[i].active
                         THEN MxUpdateSingleGrid(
                                it, i,
                                current_price * MX_BOUNDARY_DEN * MX_GRID_COUNT)
                         ELSE {it} }

\* A variant of MxUpdateGrids: when get_current_price answers None, the
\* grids are updated with self.current_price, the price read before.
MxUpdateGrids_StalePrice(it, fetched, price) ==
  MxUpdateFrom([it EXCEPT !.current_price = price], 1, price)

\* GridStrategy.update_grids: fetched is whether get_current_price answered
\* a price.
MxUpdateGrids(it, fetched, price) ==
  IF ~fetched THEN {it}
  ELSE MxUpdateFrom([it EXCEPT !.current_price = price], 1, price)

\* GridStrategy.check_all_orders_status once ORDER_CHECK_INTERVAL has
\* passed, from the grid at position i: every resting buy of an active grid
\* is queried, and marked filled when the exchange reports it FILLED.
RECURSIVE MxCheckFrom(_, _)
MxCheckFrom(it, i) ==
  IF i > Len(it.grids) THEN {it}
  ELSE LET positions == it.grids[i].positions
       IN  IF ~it.grids[i].active THEN MxCheckFrom(it, i + 1)
           ELSE UNION { MxCheckFrom(
                          [it EXCEPT !.grids[i].positions =
                             [l \in DOMAIN @ |-> @[l] \/ l \in F]],
                          i + 1)
                        : F \in SUBSET {l \in DOMAIN positions : ~positions[l]} }

\* GridStrategy.create_new_grid: the price is read, then the balance; the
\* grid is kept only when its first buy has an orderId.  A balance below
\* capital_per_grid * 1.1 counts among the abnormal answers.
MxCreateNewGrid(it) ==
  UNION {
    IF ~p.ok THEN { [it EXCEPT !.faults = p.faults] }
    ELSE UNION {
      IF ~b.ok THEN { [it EXCEPT !.faults = b.faults] }
      ELSE { LET it1 == [it EXCEPT
                           !.faults = o.faults,
                           !.grid_counter = @ + 1,
                           !.log = Append(@, [id |-> it.grid_counter + 1,
                                              side |-> "BUY",
                                              level |-> MX_INITIAL_LEVEL,
                                              ok |-> o.ok])]
             IN  IF o.ok
                 THEN [it1 EXCEPT !.grids = Append(@,
                         [id |-> it.grid_counter + 1, start_price |-> current_price,
                          current_level |-> MX_INITIAL_LEVEL,
                          positions |-> (MX_INITIAL_LEVEL :> FALSE),
                          active |-> TRUE])]
                 ELSE it1
             : o \in MxRequest(b.faults), current_price \in MxPrices }
      : b \in MxRequest(p.faults) }
    : p \in MxRequest(it.faults) }

\* main before the loop: strategy = GridStrategy(...)
InitMx ==
  /\ OffExcept({"mexc_cloud_bot"})
  /\ mx = [MxMainOff EXCEPT !.pc = "create"]
  /\ mxLast = MxNoTick

\* main, the start of an iteration of the loop: create_new_grid at a
\* trading minute.
MxCreate ==
  /\ mx.pc = "create"
  /\ mx.ticks < MxMaxTicks
  /\ \E minute \in MxMinutes :
       LET create == minute \in MX_TRADING_MINUTES
                     /\ minute # mx.last_grid_create_minute
                     /\ mx.grid_counter < MxMaxGrids
       IN  \E r \in IF create THEN MxCreateNewGrid(mx) ELSE {mx} :
             /\ mx' = [r EXCEPT !.pc = "check", !.log = << >>,
                                !.touched = (r.log # << >>),
                                !.last_grid_create_minute =
                                  IF create THEN minute ELSE @]
             /\ mxLast' = [op |-> IF create THEN "create" ELSE "none",
                           fetched |-> TRUE, px |-> 0, grids1 |-> << >>,
                           log |-> r.log]
  /\ Frame({"mexc_cloud_bot"})

\* main, strategy.check_all_orders_status(): it returns at once while
\* ORDER_CHECK_INTERVAL has not passed.
MxCheck ==
  /\ mx.pc = "check"
  /\ \E r \in {mx} \cup MxCheckFrom(mx, 1) :
       /\ mx' = [r EXCEPT !.pc = "update",
                          !.touched = (@ \/ r.grids # mx.grids)]
       /\ mxLast' = [op |-> "check", fetched |-> TRUE, px |-> 0,
                     grids1 |-> << >>, log |-> << >>]
  /\ Frame({"mexc_cloud_bot"})

\* main, strategy.update_grids(), the end of an iteration of the loop:
\* get_current_price answers px, or None (fetched is FALSE; px is then
\* self.current_price).
MxUpdate ==
  /\ mx.pc = "update"
  /\ \E fetched \in {TRUE} \cup {x \in {FALSE} : mx.faults < MaxFaults} :
       \E px \in IF fetched THEN MxPrices ELSE {mx.current_price} :
         \E r \in MxUpdateGrids([mx EXCEPT !.faults = IF fetched THEN @ ELSE @ + 1,
                                            !.log = << >>],
                                fetched, px) :
           /\ mx' = [r EXCEPT !.pc = "create", !.ticks = @ + 1,
                              !.log = << >>]
           /\ mxLast' = [op |-> "update", fetched |-> fetched, px |-> px,
                         grids1 |-> mx.grids, log |-> r.log]
  /\ Frame({"mexc_cloud_bot"})

NextMx == MxCreate \/ MxCheck \/ MxUpdate

\* The program: main() of mexc_cloud_bot.py.
SpecMx == InitMx /\ [][NextMx]_vars

\* ------------------------------------------------ the two polling programs
\* sol_usdt_success.py or mexc_cloud_bot.py runs.
InitPolling == InitSu \/ InitMx
NextPolling == SuTick \/ MxCreate \/ MxCheck \/ MxUpdate
SpecPolling == InitPolling /\ [][NextPolling]_vars

\* ------------------------------------------------ grids that have closed
\* main of sol_usdt_positive.py after two opening windows in each of which a
\* grid was opened at the price 100 (its first unit bought at slot 5) and
\* nothing else was traded; the iterations are counted from here.
InitPvLater ==
  /\ OffExcept({"sol_usdt_positive"})
  /\ pv \in { [PvMainOff EXCEPT
                 !.pc = "poll",
                 !.grids = <<w1.g, w2.g>>,
                 !.started_marks = {1, 2},
                 !.grid_count = 2,
                 !.key = 2,
                 !.window = TRUE]
              : w1 \in { w \in NewGrid(0, 100, 0) : ~w.raised /\ w.faults = 0 },
                w2 \in { w \in NewGrid(1, 100, 0) : ~w.raised /\ w.faults = 0 } }
  /\ pvLast = PvNoTick

\* sol_usdt_success.py runs from its start, or sol_usdt_positive.py from
\* the state above.
SpecClosed == (InitSu \/ InitPvLater) /\ [][SuTick \/ PvTick]_vars

\* ---------------------------------------------------- usdc_usdt_grid_bot.py
\* MovingGridBot._wait_for_order, one iteration of its while loop at a time.
\* Times are in seconds.

\* timeout, the default of the parameter, which every caller uses
WT_TIMEOUT == 60
ORDER_TIMEOUT == 30
\* time.sleep(3) at the end of an iteration
WT_SLEEP == 3

\* The re-placements of a call are counted up to this number.
WtMaxReplaced == 3

\* The time query_order may take.  (The other requests of an iteration are
\* taken to answer at once.)
WtDelays == {0, 3}

\* What query_order may answer: nothing ("none": the request failed), or an
\* order with one of the statuses of the exchange.
WtStatuses ==
  {"none", "FILLED", "NEW", "PARTIALLY_FILLED", "CANCELED", "PARTIALLY_CANCELED"}

\* return ..., ...
WtReturn(w, ret) == [w EXCEPT !.pc = "returned", !.ret = ret]

\* The end of an iteration whose query took d seconds: time.sleep(3).
WtSleep(w, d) ==
  [w EXCEPT !.since_start = @ + d + WT_SLEEP, !.age = @ + d + WT_SLEEP]

\* The order is re-placed: order_info.update(new_order) sets created_time to
\* the time of the new order, and start_time = time.time().
WtReplaced(w) ==
  [w EXCEPT !.since_start = 0, !.age = 0,
            !.replaced = Min(@ + 1, WtMaxReplaced)]

\* _wait_for_order from the test of the while loop to the next test, or to
\* the return: the possible outcomes.
WtIteration(w) ==
  IF w.type = "none" THEN {WtReturn(w, "no_order")}
  ELSE IF ~(w.since_start < WT_TIMEOUT) THEN {WtReturn(w, "timeout")}
  ELSE UNION {
         CASE status = "none" -> {WtReturn(w, "query_failed")}
           [] status = "FILLED" -> {WtReturn(w, "filled")}
           [] status \in {"NEW", "PARTIALLY_FILLED"} ->
                IF w.age + d > ORDER_TIMEOUT
                THEN {WtReturn(w, "price_failed"), WtReturn(w, "place_failed"),
                      WtSleep(WtReplaced(w), 0)}
                ELSE {WtSleep(w, d)}
           [] status \in {"CANCELED"} -> {WtReturn(w, "order_failed")}
           [] OTHER -> {WtSleep(w, d)}
         : status \in WtStatuses, d \in WtDelays }

\* A caller has placed an order (or failed to: order_info is None) and calls
\* _wait_for_order at once or a request's time later.
InitWt ==
  /\ OffExcept({"usdc_usdt_grid_bot"})
  /\ wait \in { [pc |-> "loop", type |-> t, since_start |-> 0, age |-> a,
                 replaced |-> 0, ret |-> "none"]
                : t \in {"none", "BUY", "SELL"}, a \in WtDelays }

WtStep ==
  /\ wait.pc = "loop"
  /\ wait' \in WtIteration(wait)
  /\ Frame({"usdc_usdt_grid_bot"})

NextWt == WtStep
SpecWt == InitWt /\ [][NextWt]_vars
\* The loop keeps running: the process is scheduled and every request and
\* sleep ends.
SpecWtFair == SpecWt /\ WF_vars(WtStep)

\* ------------------------------------ usdc_usdt_grid_bot.py: MovingGridBot
\* GRID_COUNT of the source.  Prices are whole numbers and every grid is
\* created at UB_BASE, with its levels 0..10 at 95..105 (a step of 1 for
\* the 0.5% of the source).
UB_GRID_COUNT == 10
UB_BASE == 100

\* Iterations of the loop of main in one run.
UbMaxTicks == 3
\* What get_price answers in update_grids (0: nothing).
UbPrices == {0, 94, 98, 100, 101, 103, 106}
\* What becomes of an order: it fills and _wait_for_order returns (True,
\* result); place_limit_order gives no orderId and _place_buy_order or
\* _place_sell_order returns None; _wait_for_order returns (False, None).
UbAnswers == {"filled", "rejected", "timeout"}

\* _calculate_grid_prices
UbGridPrice(level) == UB_BASE + level - (UB_GRID_COUNT \div 2)

\* _update_single_grid, the level of a price: -1 when no level has it.
UbNewLevel(px) ==
  IF \E l \in 0..(UB_GRID_COUNT - 1) :
          UbGridPrice(l) <= px /\ px < UbGridPrice(l + 1)
  THEN CHOOSE l \in 0..(UB_GRID_COUNT - 1) :
          UbGridPrice(l) <= px /\ px < UbGridPrice(l + 1)
  ELSE -1

\* The position that a filled buy at a level records; buy_time is the
\* iteration of the buy.
UbPosition(level, t) == << [level |-> level, buy_time |-> t] >>

\* create_grid: the grid, or nothing when the balance is short, the buy is
\* not placed or it is not filled.
UbCreateGrid(b, bal, buy) ==
  IF bal /\ buy = "filled"
  THEN [b EXCEPT !.grid_counter = @ + 1,
                 !.grid = << [id |-> b.grid_counter + 1,
                              current_level |-> UbNewLevel(UB_BASE),
                              position |-> UbPosition(UbNewLevel(UB_BASE),
                                                      b.ticks),
                              active |-> TRUE] >>]
  ELSE IF bal THEN [b EXCEPT !.grid_counter = @ + 1] ELSE b

\* _handle_price_increase: the old position is sold, then the new level is
\* bought.
UbHandleIncrease(g, new_level, bal, buy, t) ==
  IF bal
  THEN IF buy = "filled" THEN [g EXCEPT !.position = UbPosition(new_level, t)]
       ELSE IF buy = "timeout" THEN [g EXCEPT !.position = << >>]
       ELSE g
  ELSE [g EXCEPT !.position = << >>]

\* _handle_price_decrease: nothing when the position is of the new level;
\* else the new level is bought and, once that buy is filled, the old
\* position is sold.
UbHandleDecrease(g, new_level, bal, buy, t) ==
  IF g.position # << >> /\ g.position[1].level = new_level THEN g
  ELSE IF bal /\ buy = "filled"
       THEN [g EXCEPT !.position = UbPosition(new_level, t)]
       ELSE g

\* Whether the call places the sell of the position of g.
UbSells(g, new_level, bal, buy) ==
  /\ g.position # << >>
  /\ \/ new_level = -1
     \/ new_level > g.current_level
     \/ /\ new_level < g.current_level
        /\ g.position[1].level # new_level
        /\ bal /\ buy = "filled"

\* _update_single_grid; close_grid, when the price has left the range.
UbUpdateSingleGrid(g, px, bal, buy, t) ==
  LET new_level == UbNewLevel(px)
  IN  IF new_level = -1 THEN [g EXCEPT !.active = FALSE]
      ELSE IF new_level = g.current_level THEN g
      ELSE [(IF new_level > g.current_level
             THEN UbHandleIncrease(g, new_level, bal, buy, t)
             ELSE UbHandleDecrease(g, new_level, bal, buy, t))
            EXCEPT !.current_level = new_level]

\* main has tested the connection and the balance and made the bot.
InitUb ==
  /\ OffExcept({"MovingGridBot"})
  /\ ub = [UbMainOff EXCEPT !.pc = "loop"]
  /\ ubLast = UbNoTick

\* main, one iteration of the loop: create_grid when it is due and no grid is
\* active, then update_grids.
UbTick ==
  /\ ub.pc = "loop"
  /\ ub.ticks < UbMaxTicks
  /\ \E due \in BOOLEAN, cbal \in BOOLEAN, cbuy \in UbAnswers,
        px \in UbPrices, sell \in UbAnswers, bal \in BOOLEAN,
        buy \in UbAnswers :
       LET noActive == ub.grid = << >> \/ ~ub.grid[1].active
           b1 == IF due /\ noActive THEN UbCreateGrid(ub, cbal, cbuy) ELSE ub
           runs == px # 0 /\ b1.grid # << >> /\ b1.grid[1].active
           g1 == IF runs
                 THEN << UbUpdateSingleGrid(b1.grid[1], px, bal, buy,
                                            ub.ticks) >>
                 ELSE b1.grid
           sold == runs /\ UbSells(b1.grid[1], UbNewLevel(px), bal, buy)
       IN  /\ ub' = [b1 EXCEPT !.grid = g1, !.ticks = @ + 1]
           /\ ubLast' = [op |-> IF runs THEN "update" ELSE "idle", px |-> px,
                         grid0 |-> b1.grid,
                         sell |-> IF sold THEN sell ELSE "none"]
  /\ Frame({"MovingGridBot"})

\* The program: main() of usdc_usdt_grid_bot.py.
SpecUb == InitUb /\ [][UbTick]_vars

\* --------------------------------- mexc-grid-bot/mexc_cloud_bot.py: the
\* order book of GridStrategy
\* GRID_COUNT (10 in the source) and the half width of a grid, in whole
\* prices (GRID_BOUNDARY_PERCENT of the price in the source): a grid created
\* at 100 has its levels 0..3 at 98..101, one apart.
OB_GRID_COUNT == 4
OB_RANGE == 2

\* Iterations of the loop of main in one run, and grids created in one run.
ObMaxTicks == 3
ObMaxGrids == 1
\* What get_current_price answers (0: nothing).
ObPrices == {0, 98, 100, 101, 102}
\* What it answers in create_new_grid.
ObCreatePrices == {0, 100}

\* create_new_grid: the levels whose buy price is below the current price.
ObBuyLevels(lower_bound, grid_step, current_price) ==
  {level \in 0..(OB_GRID_COUNT - 1) :
     lower_bound + level * grid_step < current_price}

\* create_new_grid: nothing without a price or with too little capital;
\* placed is the set of levels whose buy order the exchange accepted, and
\* the grid is kept when there is one.
ObCreateNewGrid(b, current_price, funded, placed) ==
  IF current_price = 0 \/ ~funded THEN b
  ELSE LET lower_bound == current_price - OB_RANGE
           upper_bound == current_price + OB_RANGE
           grid_step == (upper_bound - lower_bound) \div OB_GRID_COUNT
           buys == placed \cap ObBuyLevels(lower_bound, grid_step,
                                           current_price)
           b1 == [b EXCEPT !.grid_counter = @ + 1]
       IN  IF buys = {} THEN b1
           ELSE [b1 EXCEPT !.grids =
                   Append(@, [id |-> b1.grid_counter,
                              lower_bound |-> lower_bound,
                              upper_bound |-> upper_bound,
                              buy_orders |-> buys, sell_orders |-> {},
                              filled_positions |-> {}, active |-> TRUE])]

\* A variant of ObCheckGrid: a sell order that filled stays in sell_orders.
ObCheckGrid_KeepsSellOrder(g, bought, sells, sold, buys) ==
  LET F == bought \cap g.buy_orders
      s1 == g.sell_orders \cup (sells \cap F)
      G == sold \cap s1
  IN  [g EXCEPT !.buy_orders = (@ \ F) \cup (buys \cap G),
                !.sell_orders = s1,
                !.filled_positions = (@ \cup F) \ G]

\* check_all_orders_status, one active grid.  Of the buy orders, those of
\* the levels bought are found FILLED: the level goes to filled_positions
\* and, when the exchange accepts the sell (sells), to sell_orders.  Then,
\* of the sell orders, those of the levels sold are found FILLED: the level
\* leaves sell_orders and filled_positions and, when the exchange accepts
\* the buy (buys), goes to buy_orders.
ObCheckGrid(g, bought, sells, sold, buys) ==
  LET F == bought \cap g.buy_orders
      s1 == g.sell_orders \cup (sells \cap F)
      G == sold \cap s1
  IN  [g EXCEPT !.buy_orders = (@ \ F) \cup (buys \cap G),
                !.sell_orders = s1 \ G,
                !.filled_positions = (@ \cup F) \ G]

\* The grids that a call of check_all_orders_status may leave, from grid i
\* on.
RECURSIVE ObCheckFrom(_, _)
ObCheckFrom(grids, i) ==
  IF i > Len(grids) THEN {grids}
  ELSE IF ~grids[i].active THEN ObCheckFrom(grids, i + 1)
  ELSE UNION { ObCheckFrom([grids EXCEPT ![i] = g], i + 1)
               : g \in UNION UNION UNION {{{{
                     ObCheckGrid(grids[i], bought, sells, sold, buys)
                     : buys \in SUBSET sold }
                     : sold \in SUBSET (grids[i].sell_orders \cup sells) }
                     : sells \in SUBSET bought }
                     : bought \in SUBSET grids[i].buy_orders } }

\* update_grids and close_grid: an active grid whose bounds the price has
\* left is closed; its orders are cancelled on the exchange and stay in
\* the book.
ObUpdateGrids(grids, current_price) ==
  IF current_price = 0 THEN grids
  ELSE [i \in 1..Len(grids) |->
          IF /\ grids[i].active
             /\ \/ current_price <= grids[i].lower_bound
                \/ current_price >= grids[i].upper_bound
          THEN [grids[i] EXCEPT !.active = FALSE]
          ELSE grids[i]]

\* main has tested the connection and made the strategy.
InitOb ==
  /\ OffExcept({"mexc-grid-bot"})
  /\ ob = [ObMainOff EXCEPT !.pc = "loop"]
  /\ obLast = ObNoTick

\* main, one iteration of the loop: create_new_grid when it is due,
\* check_all_orders_status (which returns at once within
\* ORDER_CHECK_INTERVAL of the call before), update_grids.
ObTick ==
  /\ ob.pc = "loop"
  /\ ob.ticks < ObMaxTicks
  /\ \E b1 \in {ob} \cup
                 { ObCreateNewGrid(ob, cpx, funded, placed)
                   : cpx \in {c \in ObCreatePrices :
                                ob.grid_counter < ObMaxGrids},
                     funded \in BOOLEAN,
                     placed \in SUBSET (0..(OB_GRID_COUNT - 1)) },
        checks \in BOOLEAN, px \in ObPrices :
       \E g2 \in IF checks THEN ObCheckFrom(b1.grids, 1) ELSE {b1.grids} :
             /\ ob' = [b1 EXCEPT !.grids = ObUpdateGrids(g2, px),
                                 !.ticks = @ + 1]
             /\ obLast' = [op |-> IF checks THEN "check" ELSE "idle",
                           px |-> px, grids0 |-> ob.grids]
  /\ Frame({"mexc-grid-bot"})

\* The program: main() of mexc-grid-bot/mexc_cloud_bot.py.
SpecOb == InitOb /\ [][ObTick]_vars

\* -------------------------------- the programs that dispatch to every grid
\* sol_po.py or sol_usdt_success.py runs.
InitMulti == InitPo \/ InitSu
NextMulti == PoTick \/ PoTickNoPrice \/ SuTick
SpecMulti == InitMulti /\ [][NextMulti]_vars

\* ================================================================= claims
\* The intents of a log: side and level of each line, in order.
Intents(log) == [i \in 1..Len(log) |-> <<log[i].side, log[i].level>>]

\* The part of the last call's log written by the walk, and by the flatten.
WalkLog == SubSeq(last.log, 1, last.nwalk)
FlatLog == SubSeq(last.log, last.nwalk + 1, Len(last.log))

\* A line of a log is a rejected order: place raised there.
Rejected(e) == e.placed /\ ~e.ok

\* Every unit buy and every sell of the log filled in full.
AllFilled(log) == \A i \in 1..Len(log) : log[i].ok /\ log[i].fill = log[i].qty

\* ----------------------------------------------------------------- C1
\* C1: after any sequence of on_price calls no level holds more than one
\* unit, and no unit buy of a crossing is credited to a level that already
\* holds a positive quantity.
C1_NoDoubleOpen ==
  /\ \A l \in DOMAIN held : held[l] <= UnitQty
  /\ last.op = "on_price" =>
       \A i \in 1..last.nwalk :
         (last.log[i].side = "buy" /\ last.log[i].ok) => last.log[i].had <= 0

\* ----------------------------------------------------------------- C2
\* The log L of an upward walk from level cur (holding hcur there) to level b,
\* read from line i: one unit buy at cur+1, then a sell of all of hcur at cur
\* when hcur > 0, then the same from cur+1.  A rejected order ends the log.
RECURSIVE UpWalkCheck(_, _, _, _, _)
UpWalkCheck(L, i, cur, b, hcur) ==
  IF cur = b
  THEN i = Len(L) + 1
  ELSE /\ i <= Len(L)
       /\ L[i].side = "buy" /\ L[i].level = cur + 1 /\ L[i].placed
       /\ IF Rejected(L[i])
          THEN i = Len(L)
          ELSE IF hcur > 0
          THEN /\ i + 1 <= Len(L)
               /\ L[i+1].side = "sell" /\ L[i+1].level = cur /\ L[i+1].qty = hcur
               /\ IF Rejected(L[i+1])
                  THEN i + 1 = Len(L)
                  ELSE UpWalkCheck(L, i + 2, cur + 1, b, L[i].had + L[i].fill)
          ELSE UpWalkCheck(L, i + 1, cur + 1, b, L[i].had + L[i].fill)

\* C2: when on_price sees a level b above the previous level a, its orders are
\* those of a walk one level at a time: for cur = a..b-1 in order, a unit buy
\* at cur+1 followed by a sell of the whole quantity held at cur when cur is
\* held; no level is skipped and, unless place raises, each level a+1..b gets
\* exactly one buy.  From level 5 held to level 7 with full fills the orders
\* are Buy(6), Sell(5), Buy(7), Sell(6) and only level 7 stays held.
C2_UpWalk ==
  (last.op = "on_price" /\ last.lv > last.prev0) =>
    /\ UpWalkCheck(WalkLog, 1, last.prev0, last.lv, HeldGet(last.held0, last.prev0))
    /\ last.result # "raised" =>
         /\ \A i \in 1..Len(last.log) : ~Rejected(last.log[i])
         /\ \A l \in (last.prev0 + 1)..last.lv :
              Cardinality({i \in 1..last.nwalk :
                             last.log[i].side = "buy" /\ last.log[i].level = l}) = 1
    /\ (/\ last.prev0 = 5 /\ last.lv = 7
        /\ HeldLevels(last.held0) = {5}
        /\ last.result = "returned" /\ AllFilled(last.log)) =>
         /\ Intents(last.log) = << <<"buy", 6>>, <<"sell", 5>>, <<"buy", 7>>, <<"sell", 6>> >>
         /\ HeldLevels(held) = {7}

\* The walk 5 -> 7 of the example happened, every order filled in full.
C2_Witness ==
  /\ last.op = "on_price" /\ last.prev0 = 5 /\ last.lv = 7
  /\ last.held0 = [l \in {5} |-> UnitQty]
  /\ last.result = "returned" /\ AllFilled(last.log)
  /\ Len(last.log) = 4
  /\ held = [l \in {7} |-> UnitQty]

\* ----------------------------------------------------------------- C3
\* The log L of a downward walk from level cur to level b over the ledger h0,
\* read from line i: for each level entered, one unit buy exactly when h0
\* holds no positive quantity there.  A rejected order ends the log.
RECURSIVE DownWalkCheck(_, _, _, _, _)
DownWalkCheck(L, i, cur, b, h0) ==
  IF cur = b
  THEN i = Len(L) + 1
  ELSE IF HeldGet(h0, cur - 1) <= 0
  THEN /\ i <= Len(L)
       /\ L[i].side = "buy" /\ L[i].level = cur - 1 /\ L[i].placed
       /\ IF Rejected(L[i])
          THEN i = Len(L)
          ELSE DownWalkCheck(L, i + 1, cur - 1, b, h0)
  ELSE DownWalkCheck(L, i, cur - 1, b, h0)

\* C3: when on_price sees a level b below the previous level a, b not 0, no
\* sell is issued, and for next = a-1 down to b, in order, one unit buy is
\* issued exactly when the ledger holds no positive quantity at next (a
\* rejected buy ends the call there).
C3_DownWalk ==
  (last.op = "on_price" /\ last.lv < last.prev0 /\ last.lv # 0) =>
    /\ \A i \in 1..Len(last.log) : last.log[i].side = "buy"
    /\ DownWalkCheck(last.log, 1, last.prev0, last.lv, last.held0)
    /\ last.result # "raised" => \A i \in 1..Len(last.log) : ~Rejected(last.log[i])

\* A downward walk of two levels or more that returned, passing a level that
\* was held (no buy there) and a level that was not (one buy there).
C3_Witness ==
  /\ last.op = "on_price" /\ last.lv < last.prev0 - 1 /\ last.lv # 0
  /\ last.result = "returned"
  /\ \E l \in last.lv..(last.prev0 - 1) : HeldGet(last.held0, l) > 0
  /\ \E i \in 1..Len(last.log) : last.log[i].side = "buy"

\* ----------------------------------------------------------------- C4
\* C4: when on_price in main sees a price that maps to level 0 or 10, the
\* loop is left: unless place raises, flatten_all issues a sell of the whole
\* quantity for every level held with a positive quantity and SystemExit ends
\* the loop; once the loop is left at the boundary that call stays the last
\* call and no step is possible.
C4_BoundaryFlattens ==
  /\ (last.op = "on_price" /\ last.lv \in {0, NLevels}) =>
       /\ pc \in {"boundary", "crashed"}
       /\ last.result # "raised" =>
            /\ last.result = "exit" /\ pc = "boundary" /\ closed
            /\ \A l \in HeldLevels(last.mid) :
                 \E i \in (last.nwalk + 1)..Len(last.log) :
                   /\ last.log[i].side = "sell"
                   /\ last.log[i].level = l
                   /\ last.log[i].qty = last.mid[l]
  /\ pc = "boundary" =>
       /\ last.op = "on_price" /\ last.lv \in {0, NLevels} /\ last.result = "exit"
       /\ ~ENABLED Next

\* The loop was left at the upper boundary after selling two levels or more.
C4_Witness ==
  /\ pc = "boundary" /\ last.lv = NLevels
  /\ Cardinality(HeldLevels(last.mid)) >= 2
  /\ Len(FlatLog) >= 2

\* ----------------------------------------------------------------- C5
\* The levels of the sells of a log, in order.
SoldLevels(log) == [i \in 1..Len(log) |-> log[i].level]
Range(f) == {f[i] : i \in DOMAIN f}

\* C5 as stated: at a boundary sample the only orders are the flatten sells,
\* no buy is issued, and the levels sold are exactly the levels held before
\* the sample.
C5_OnlyFlattenSells ==
  (last.op = "on_price" /\ last.lv \in {0, NLevels} /\ last.result = "exit") =>
    /\ \A i \in 1..Len(last.log) : last.log[i].side = "sell"
    /\ Range(SoldLevels(last.log)) = HeldLevels(last.held0)

\* C5 amended: at a boundary sample on_price first walks to the boundary
\* level and issues the crossing orders, a unit buy at the boundary level
\* among them (the last buy of the walk); then flatten_all issues sells only,
\* one for each level held with a positive quantity when the walk ended, and
\* for no other level.  With full fills, from level 2 holding 7,6,5,4,3,2 a
\* price of 95 gives Buy(1), Buy(0), then sells of 7,6,5,4,3,2,1,0.
C5_WalkThenFlatten ==
  (last.op = "on_price" /\ last.lv \in {0, NLevels} /\ last.lv # last.prev0
     /\ last.result = "exit") =>
    /\ IF last.lv > last.prev0
       THEN UpWalkCheck(WalkLog, 1, last.prev0, last.lv, HeldGet(last.held0, last.prev0))
       ELSE DownWalkCheck(WalkLog, 1, last.prev0, last.lv, last.held0)
    /\ HeldGet(last.held0, last.lv) <= 0 =>
         \E i \in 1..last.nwalk :
           /\ last.log[i].side = "buy" /\ last.log[i].level = last.lv
           /\ \A j \in (i + 1)..last.nwalk : last.log[j].side = "sell"
    /\ \A i \in 1..Len(FlatLog) : FlatLog[i].side = "sell"
    /\ Range(SoldLevels(FlatLog)) = HeldLevels(last.mid)
    /\ Len(FlatLog) = Cardinality(HeldLevels(last.mid))
    /\ (/\ last.prev0 = 2 /\ last.lv = 0 /\ HeldLevels(last.held0) = 2..7
        /\ AllFilled(last.log)) =>
         /\ Intents(WalkLog) = << <<"buy", 1>>, <<"buy", 0>> >>
         /\ SoldLevels(FlatLog) = <<7, 6, 5, 4, 3, 2, 1, 0>>

\* The scenario 5 -> 7 -> 2 -> 0 ended at the lower boundary, all fills full.
C5_Witness ==
  /\ pc = "boundary" /\ last.prev0 = 2 /\ last.lv = 0 /\ last.px = 95
  /\ HeldLevels(last.held0) = 2..7
  /\ AllFilled(last.log)
  /\ Len(FlatLog) = 8
  /\ held = EmptyHeld

\* ----------------------------------------------------------------- C6
\* C6 as stated: from prev_level 7 with only level 7 held, a price of 97
\* makes on_price issue exactly the buys 4, 3, 2.
C6_ThreeBuys ==
  (/\ last.op = "on_price" /\ last.prev0 = 7 /\ last.px = 97
   /\ HeldLevels(last.held0) = {7} /\ last.result = "returned") =>
    Intents(last.log) = << <<"buy", 4>>, <<"buy", 3>>, <<"buy", 2>> >>

\* C6 amended: from prev_level 7 with only level 7 held, a price of 97
\* (level 2) makes on_price issue exactly five buys, at levels 6, 5, 4, 3, 2
\* in that order, and no sell (a rejected buy ends the call there).
C6_FiveBuys ==
  (/\ last.op = "on_price" /\ last.prev0 = 7 /\ last.px = 97
   /\ HeldLevels(last.held0) = {7}) =>
    /\ last.lv = 2
    /\ \A i \in 1..Len(last.log) : last.log[i].side = "buy" /\ last.log[i].level = 7 - i
    /\ last.result # "raised" =>
         Intents(last.log) =
           << <<"buy", 6>>, <<"buy", 5>>, <<"buy", 4>>, <<"buy", 3>>, <<"buy", 2>> >>
    /\ last.result = "raised" => Len(last.log) <= 5 /\ Rejected(last.log[Len(last.log)])

\* The sample 97 was processed from level 7 with only level 7 held.
C6_Witness ==
  /\ last.op = "on_price" /\ last.prev0 = 7 /\ last.px = 97
  /\ last.held0 = [l \in {7} |-> UnitQty]
  /\ last.result = "returned" /\ Len(last.log) = 5
  /\ HeldLevels(held) = 2..7

\* ----------------------------------------------------------------- C7
\* The path of C7: started at level 5 holding only level 5, the samples rose
\* (in one step or several) 3 levels to level 8 and then fell 3 levels back
\* to level 5, every order filled in full, and the last sample's call of
\* on_price has returned.
RoundTrip ==
  /\ faults = 0
  /\ last.op = "on_price" /\ last.result = "returned"
  /\ trip = [trend |-> "down", peak |-> StartLevel + 3]
  /\ prev_level = StartLevel

\* C7 as stated: the round trip leaves the same set of levels held: level 5.
C7_RoundTripSame == RoundTrip => HeldLevels(held) = {StartLevel}

\* C7 amended: the round trip leaves levels 5, 6, 7 and 8 held, one unit
\* each: the way up leaves only level 8, and the way down buys 7, 6, 5.
C7_RoundTripAccumulates ==
  RoundTrip => held = [l \in StartLevel..(StartLevel + 3) |-> UnitQty]

\* The round trip 5 -> 8 -> 5 in two samples: the second call bought 7, 6, 5.
C7_Witness ==
  /\ RoundTrip /\ last.prev0 = StartLevel + 3 /\ ticks = 2
  /\ Intents(last.log) = << <<"buy", 7>>, <<"buy", 6>>, <<"buy", 5>> >>

\* ----------------------------------------------------------------- C8
\* C8: once the instance has flattened at a boundary level, a later call of
\* on_price, for any price, places no order and changes no ledger entry.
C8_ClosedNoOp ==
  (last.op = "on_price" /\ last.closed0) =>
    /\ \A i \in 1..Len(last.log) : ~last.log[i].placed
    /\ held = last.held0

\* ----------------------------------------------------------------- C9
\* The log of the flatten_all of the last call, when there was one.
FlattenLog ==
  IF last.op = "flatten_all" THEN last.log
  ELSE IF last.op = "on_price" THEN FlatLog
  ELSE << >>

\* C9: flatten_all issues its sells in strictly descending level order, for
\* any set of held levels; holding {2,4,5} it sells 5, then 4, then 2.
C9_FlattenDescending ==
  /\ \A i, j \in 1..Len(FlattenLog) :
       i < j => FlattenLog[i].level > FlattenLog[j].level
  /\ \A i \in 1..Len(FlattenLog) : FlattenLog[i].side = "sell"
  /\ (last.op = "flatten_all" /\ HeldLevels(last.held0) = {2, 4, 5}
        /\ last.result = "returned") =>
       SoldLevels(last.log) = <<5, 4, 2>>

\* flatten_all ran on a ledger holding exactly the levels 2, 4 and 5.
C9_Witness ==
  /\ last.op = "flatten_all" /\ HeldLevels(last.held0) = {2, 4, 5}
  /\ last.result = "returned" /\ Len(last.log) = 3

\* ----------------------------------------------------------------- C10
\* C10: a call of flatten_all after an earlier call of flatten_all has run to
\* its end places no order and leaves the ledger unchanged, whatever the
\* first call's sells were reported to have filled.
C10_FlattenIdempotent ==
  (last.op = "flatten_all" /\ last.flattened0) =>
    /\ \A i \in 1..Len(last.log) : ~last.log[i].placed
    /\ held = last.held0

\* ----------------------------------------------------------------- C16
\* C16: an attempt to sell a level whose held quantity is below minSz places
\* no order and removes that level's entry from held, in an upward crossing
\* and in flatten_all alike.
C16_DustDropped ==
  \A i \in 1..Len(last.log) :
    (last.log[i].side = "sell" /\ last.log[i].qty < MinSz) =>
      /\ ~last.log[i].placed
      /\ last.log[i].level \notin DOMAIN held

\* ----------------------------------------------------------------- C18
\* C18: when place raises during the walk of an on_price call, the walk goes
\* on to the sampled level (prev_level is not left behind) and the polling
\* loop keeps running.
C18_OrderFailureContained ==
  (last.op = "on_price" /\ last.result = "raised") =>
    /\ pc = "poll"
    /\ prev_level = last.lv

\* ----------------------------------------------------------------- C20
\* C20: whenever the polling loop of main has stopped (boundary hit, timeout,
\* manual interrupt), a flatten_all has run before the stop.
C20_StopsFlattened ==
  pc \in {"boundary", "timeup", "interrupted"} => flattened

\* ----------------------------------------------------------------- C11
\* C11: for every price and every grid with lower < upper, each of the three
\* level mappings returns an integer in 0..N, 0 for a price at or below
\* lower and N for a price at or above upper.
C11_LevelInRange ==
  lvq.fn \notin {"none", "off"} =>
    /\ lvq.lv \in 0..NLevels
    /\ lvq.px <= lvq.lower => lvq.lv = 0
    /\ lvq.px >= lvq.upper => lvq.lv = NLevels

\* Grid.level_of answered N for a price above the upper bound of a grid, and
\* the unclamped rounding would have left the range there.
C11_Witness ==
  /\ lvq.fn = "Grid.level_of" /\ lvq.px > lvq.upper /\ lvq.lv = NLevels
  /\ LevelOf_NoGuards(lvq.lower, lvq.upper, lvq.px) > NLevels

\* ----------------------------------------------------------------- C12
\* C12: every grid that maybe_start_new_grid adds to self.grids has had a
\* buy order placed for the start level 5.
C12_SpawnPlacesBuy ==
  mgrLast.spawned =>
    \E i \in 1..Len(mgrLast.spawn_log) :
      /\ mgrLast.spawn_log[i].side = "buy"
      /\ mgrLast.spawn_log[i].level = PO_START_LEVEL

\* ----------------------------------------------------------------- C14
\* The orders of a log that are for the grid tag, as side and level.
TagIntents(log, tag) ==
  LET l == SelectSeq(log, LAMBDA e : e.tag = tag)
  IN  [i \in 1..Len(l) |-> <<l[i].side, l[i].level>>]

\* The orders of one step of the grid g to the interior level lvl.
OneStep(g, lvl) ==
  IF lvl > g.last_level
  THEN (IF g.last_level \in g.levels_holding
        THEN << <<"sell", g.last_level>> >> ELSE << >>)
       \o (IF lvl \in g.levels_holding THEN << >> ELSE << <<"buy", lvl>> >>)
  ELSE IF lvl < g.last_level /\ lvl \notin g.levels_holding
  THEN << <<"buy", lvl>> >>
  ELSE << >>

\* The grids of the manager that carry the tag.
WithTag(grids, tag) == { grids[j] : j \in {k \in 1..Len(grids) : grids[k].tag = tag} }

\* C14: after GridManager.on_price has returned normally, self.grids holds no
\* grid with alive = False: a grid whose price mapped to level 0 or N was
\* flattened (a sell placed for each level it held) and removed, a grid that
\* was closed before is removed, and every other grid was stepped exactly
\* once, to the level of the price.
C14_DispatchRemovesClosed ==
  mgrLast.result = "returned" =>
    /\ \A i \in 1..Len(mgr.grids) : mgr.grids[i].alive
    /\ \A i \in 1..Len(mgrLast.grids1) :
         LET g == mgrLast.grids1[i]
             lvl == PoLevel(g, mgrLast.px)
             ints == TagIntents(mgrLast.log, g.tag)
         IN  IF ~g.alive
             THEN WithTag(mgr.grids, g.tag) = {} /\ ints = << >>
             ELSE IF lvl \in {0, PO_GRID_LEVELS}
             THEN /\ WithTag(mgr.grids, g.tag) = {}
                  /\ {ints[k][2] : k \in 1..Len(ints)} = g.levels_holding
                  /\ \A k \in 1..Len(ints) : ints[k][1] = "sell"
             ELSE /\ \E h \in WithTag(mgr.grids, g.tag) : h.alive /\ h.last_level = lvl
                  /\ ints = OneStep(g, lvl)

\* A call that returned normally, in which one grid was flattened at a
\* boundary level and removed while another grid moved to a new level.
C14_Witness ==
  /\ mgrLast.result = "returned"
  /\ \E i, j \in 1..Len(mgrLast.grids1) :
       /\ mgrLast.grids1[i].alive /\ mgrLast.grids1[j].alive
       /\ PoLevel(mgrLast.grids1[i], mgrLast.px) \in {0, PO_GRID_LEVELS}
       /\ mgrLast.grids1[i].levels_holding # {}
       /\ PoLevel(mgrLast.grids1[j], mgrLast.px) \notin {0, PO_GRID_LEVELS}
       /\ PoLevel(mgrLast.grids1[j], mgrLast.px) # mgrLast.grids1[j].last_level
       /\ Len(mgr.grids) = 1

\* ----------------------------------------------------------------- C13
\* C13: the number of grids a multi-grid manager holds (GridManager.grids of
\* sol_po.py, the list grids of sol_usdt_positive.main) never exceeds
\* MAX_CONCURRENT_GRIDS, and an iteration that starts with the maximum
\* number of grids opens no grid and places no order for an opening.
C13_GridCountBounded ==
  /\ Len(mgr.grids) <= PO_MAX_CONCURRENT_GRIDS
  /\ (mgrLast.fetched /\ Len(mgrLast.mgr0.grids) >= PO_MAX_CONCURRENT_GRIDS) =>
       /\ ~mgrLast.spawned
       /\ mgrLast.spawn_log = << >>
       /\ mgrLast.grids1 = mgrLast.mgr0.grids
  /\ Len(pv.grids) <= PV_MAX_CONCURRENT_GRIDS
  /\ (pvLast.result # "none" /\ Len(pvLast.pv0.grids) >= PV_MAX_CONCURRENT_GRIDS) =>
       /\ ~pvLast.tried /\ ~pvLast.spawned
       /\ pvLast.spawn_log = << >>
       /\ pv.grid_count = pvLast.pv0.grid_count

\* maybe_start_new_grid was called at a minute of NEW_GRID_MINUTES other
\* than the last one used, with the maximum number of grids running.
C13_Witness ==
  /\ mgrLast.fetched
  /\ Len(mgrLast.mgr0.grids) = PO_MAX_CONCURRENT_GRIDS
  /\ mgrLast.minute \in NEW_GRID_MINUTES
  /\ mgrLast.minute # mgrLast.mgr0.last_grid_minute
  /\ ~mgrLast.spawned

\* The same case in sol_usdt_positive.main: an iteration in a fresh opening
\* window with the maximum number of grids in the list.
C13_WitnessPositive ==
  /\ pvLast.result # "none"
  /\ Len(pvLast.pv0.grids) = PV_MAX_CONCURRENT_GRIDS
  /\ pv.window /\ pv.key \notin pvLast.pv0.started_marks
  /\ ~pvLast.spawned

\* ----------------------------------------------------------------- C15
\* C15: in balance-percentage mode, a sizing whose balance x percent is
\* below the minimum notional is rejected: no order is sized, and the amount
\* is not raised to the minimum.
C15_SmallAmountRejected ==
  \A i \in 1..Len(pvLast.sizings) :
    LET c == pvLast.sizings[i]
    IN  (PV_USE_BALANCE_PERCENT
           /\ c.bal < PV_MIN_NOTIONAL_USDT * PV_BALANCE_PCT_DEN) =>
          (c.sz = 0 /\ c.usdt < PV_MIN_NOTIONAL_USDT)

\* C17: in Grid._open_if_absent of sol_usdt_success.py, a market buy that is
\* rejected or returns no order id leaves positions unchanged: a level is
\* recorded only for a buy the exchange accepted.
C17_RejectedBuyNotRecorded ==
  /\ \A i \in 1..Len(suLast.log) :
       (suLast.log[i].side = "buy" /\ ~suLast.log[i].accepted)
         => ~suLast.log[i].recorded
  /\ \A i \in 1..Len(su.grids) : \A j \in 1..Len(su.grids[i].positions) :
       su.grids[i].positions[j][3]

\* C19 as stated: when the price fetch fails in a polling tick (get_price
\* raises in sol_usdt_success.main, get_current_price answers None in
\* GridStrategy.update_grids), no order is placed and no grid's level,
\* positions or active flag changes in that tick, and the loop goes on.
C19_FetchFailureSkipsTick ==
  /\ (suLast.result # "none" /\ ~suLast.fetched)
       => /\ su.grids = suLast.su0.grids
          /\ suLast.log = << >>
          /\ su.pc = "poll"
  /\ (mxLast.op = "update" /\ ~mxLast.fetched)
       => /\ mx.grids = mxLast.grids1
          /\ mxLast.log = << >>
          /\ ~mx.touched
          /\ mx.pc = "create"

\* C19, amended: when the price fetch fails, the dispatch is skipped: the
\* iteration of sol_usdt_success.main and the call of update_grids place
\* no order and change no grid, and the loop goes on.  (In mexc_cloud_bot,
\* create_new_grid and check_all_orders_status have run before in the same
\* iteration.)
C19_FetchFailureSkipsDispatch ==
  /\ (suLast.result # "none" /\ ~suLast.fetched)
       => /\ su.grids = suLast.su0.grids
          /\ suLast.log = << >>
          /\ su.pc = "poll"
  /\ (mxLast.op = "update" /\ ~mxLast.fetched)
       => /\ mx.grids = mxLast.grids1
          /\ mxLast.log = << >>
          /\ mx.pc = "create"

\* update_grids has just failed to read the price while a grid is active
\* away from the level of the price read before.
C19_Witness ==
  /\ mxLast.op = "update"
  /\ ~mxLast.fetched
  /\ \E i \in 1..Len(mx.grids) :
       /\ mx.grids[i].active
       /\ mx.grids[i].positions # << >>
       /\ MxUpdateSingleGrid(mx, i, mx.current_price * MX_BOUNDARY_DEN * MX_GRID_COUNT)
            # {mx}

\* get_price has just raised in sol_usdt_success.main while a grid is active
\* and a spawn was due.
C19_WitnessSuccess ==
  /\ suLast.result # "none"
  /\ ~suLast.fetched
  /\ su.window /\ su.key # su.last_spawn_key
  /\ \E i \in 1..Len(su.grids) :
       su.grids[i].active /\ su.grids[i].positions # << >>

\* C21: every quantity stored in held is >= 0, whatever fill the exchange
\* reports; a sell that reports fill f on a level holding q leaves the level
\* with max(0, q - f), and without an entry when that is 0.  (Read on the
\* last order of the call for that level.)
C21_HeldNeverNegative ==
  /\ \A l \in DOMAIN held : held[l] >= 0
  /\ last.op \in {"on_price", "flatten_all"} =>
       \A i \in 1..Len(last.log) :
         LET e == last.log[i]
         IN  (/\ e.side = "sell" /\ e.placed /\ e.ok
              /\ \A j \in (i + 1)..Len(last.log) : last.log[j].level # e.level)
               => /\ HeldGet(held, e.level) = Max(0, e.had - e.fill)
                  /\ (e.level \in DOMAIN held <=> e.had - e.fill > 0)

\* A sell has just reported a fill larger than the quantity the level held.
C21_Witness ==
  /\ last.op \in {"on_price", "flatten_all"}
  /\ \E i \in 1..Len(last.log) :
       /\ last.log[i].side = "sell" /\ last.log[i].ok
       /\ last.log[i].fill > last.log[i].had
       /\ last.log[i].level \notin DOMAIN held

\* The states grid g0 of sol_po.py can be left in by the body of the loop of
\* GridManager.on_price run on g0 alone at the price px, the exchange having
\* answered abnormally f times before.
PoAlone(g0, px, f) ==
  { r.grids[1] : r \in StepGrid(MgrWork(<<g0>>, {}, << >>, f, FALSE), 1, px) }

\* The states grid g0 of sol_usdt_success.py can be left in by g0.on_price(px)
\* run on g0 alone, the exchange having answered abnormally f times before.
SuAlone(g0, px, min_sz, f) ==
  { w.g : w \in SuOnPrice([g |-> g0, log |-> << >>, min_sz |-> min_sz,
                           faults |-> f, raised |-> FALSE], px) }

\* C22: processing a price changes each grid by its own step only.  After
\* GridManager.on_price (sol_po.py) and after the loop over the grids of
\* sol_usdt_success.main, every grid is either as it was or in a state its
\* own step reaches from its own state (the abnormal answers of the exchange
\* counted from the start of the iteration), whatever the other grids are
\* and do; in sol_po a grid that is gone was collected for deletion.
C22_OwnStateOnly ==
  /\ mgrLast.result \in {"returned", "raised"} =>
       \A j \in 1..Len(mgrLast.grids1) :
         LET g0 == mgrLast.grids1[j]
             post == { mgr.grids[k] : k \in { n \in 1..Len(mgr.grids) :
                                               mgr.grids[n].tag = g0.tag } }
         IN  IF post = {} THEN g0.tag \in mgrLast.to_delete
             ELSE \A g \in post : g = g0 \/ g \in PoAlone(g0, mgrLast.px, mgrLast.mgr0.faults)
  /\ (suLast.result # "none" /\ suLast.fetched) =>
       \A j \in 1..Len(suLast.su0.grids) :
         LET g0 == suLast.su0.grids[j]
         IN  \/ /\ suLast.spawned
                /\ g0.label = suLast.su0.next_label_idx % SU_LABELS
             \/ su.grids[j] = g0
             \/ su.grids[j] \in SuAlone(g0, suLast.px, su.min_sz, suLast.su0.faults)

\* GridManager.on_price has just placed orders for two grids that were both
\* alive when it was called.
C22_Witness ==
  /\ mgrLast.result = "returned"
  /\ \E i, j \in 1..Len(mgrLast.grids1) :
       /\ i # j
       /\ mgrLast.grids1[i].alive /\ mgrLast.grids1[j].alive
       /\ \E a, b \in 1..Len(mgrLast.log) :
            /\ mgrLast.log[a].tag = mgrLast.grids1[i].tag
            /\ mgrLast.log[b].tag = mgrLast.grids1[j].tag

\* The loop of sol_usdt_success.main has just placed an order for one of two
\* active grids and none for the other.
C22_WitnessSuccess ==
  /\ suLast.result = "returned" /\ suLast.fetched /\ ~suLast.spawned
  /\ \E i, j \in 1..Len(suLast.su0.grids) :
       /\ suLast.su0.grids[i].active /\ suLast.su0.grids[j].active
       /\ suLast.su0.grids[i].label # suLast.su0.grids[j].label
       /\ \E a \in 1..Len(suLast.log) : suLast.log[a].label = suLast.su0.grids[i].label
       /\ \A a \in 1..Len(suLast.log) : suLast.log[a].label # suLast.su0.grids[j].label

\* C23: a grid of mexc_cloud_bot.py that is marked inactive has no filled
\* position left: close_grid sold every one of them when the price left the
\* range.
C23_ClosedGridHoldsNothing ==
  \A i \in 1..Len(mx.grids) :
    ~mx.grids[i].active =>
      \A l \in DOMAIN mx.grids[i].positions : ~mx.grids[i].positions[l]

\* C24: every call of MovingGridBot._wait_for_order returns, an order that
\* never fills included: the loop cannot keep the polling loop waiting for
\* ever.
C24_WaitReturns == <>(wait.pc = "returned")

\* C25: a call of GridManager.on_price (sol_po.py) in which the level of a
\* grid rises from last_level a to an interior level b > a + 1 is processed
\* one level at a time, each held level below the one crossed being sold:
\* after the call the grid holds no level of a..b-1.
C25_RiseSellsLevelsBelow ==
  mgrLast.result = "returned" =>
    \A j \in 1..Len(mgrLast.grids1) :
      LET g0 == mgrLast.grids1[j]
          b == PoLevel(g0, mgrLast.px)
      IN  (g0.alive /\ 0 < b /\ b < PO_GRID_LEVELS /\ b > g0.last_level + 1) =>
            \A k \in 1..Len(mgr.grids) :
              mgr.grids[k].tag = g0.tag =>
                mgr.grids[k].levels_holding \cap (g0.last_level..(b - 1)) = {}

\* C26: GridManager._close_all_levels (sol_po.py) sells the held levels in
\* descending order: of two sell orders a call of on_price places for a grid
\* it closes at a boundary level, the earlier one is for the higher level.
C26_CloseSellsDescending ==
  mgrLast.result = "returned" =>
    \A j \in 1..Len(mgrLast.grids1) :
      LET g0 == mgrLast.grids1[j]
          b == PoLevel(g0, mgrLast.px)
      IN  (g0.alive /\ (b = 0 \/ b = PO_GRID_LEVELS)) =>
            \A m, n \in 1..Len(mgrLast.log) :
              (/\ m < n
               /\ mgrLast.log[m].tag = g0.tag /\ mgrLast.log[m].side = "sell"
               /\ mgrLast.log[n].tag = g0.tag /\ mgrLast.log[n].side = "sell")
                => mgrLast.log[m].level > mgrLast.log[n].level

\* C27: a grid of sol_po.py is closed (alive = False, removed from the
\* manager) only when every held level has been sold: a grid one of whose
\* flatten sells failed in a call of on_price is still in the manager, and
\* alive, after the call.
C27_FailedFlattenKeepsGrid ==
  mgrLast.result = "returned" =>
    \A j \in 1..Len(mgrLast.grids1) :
      LET g0 == mgrLast.grids1[j]
      IN  (/\ g0.alive
           /\ \E m \in 1..Len(mgrLast.log) :
                /\ mgrLast.log[m].tag = g0.tag
                /\ mgrLast.log[m].side = "sell"
                /\ ~mgrLast.log[m].ok)
            => \E k \in 1..Len(mgr.grids) :
                 mgr.grids[k].tag = g0.tag /\ mgr.grids[k].alive

\* C28: a call of GridCaseD.on_price whose price maps to the level of
\* prev_level places no order and leaves held and prev_level as they were;
\* so a sample repeated at one level, a price on a level edge included,
\* fires nothing a second time.
C28_SameLevelNoAction ==
  (last.op = "on_price" /\ PriceToLevel(last.px) = last.prev0) =>
    /\ last.log = << >>
    /\ last.result = "returned"
    /\ held = last.held0
    /\ prev_level = last.prev0

\* A later sample of main maps to the level the sample before it moved to,
\* at a price on the lower edge of that level, with units held.
C28_Witness ==
  /\ last.op = "on_price"
  /\ PriceToLevel(last.px) = last.prev0
  /\ last.prev0 # StartLevel
  /\ PriceToLevelOf(Lower, Upper, last.px) * (Upper - Lower)
       = (last.px - Lower) * NLevels
  /\ held # EmptyHeld
  /\ ticks >= 2

\* C29: a grid of sol_usdt_success.py or sol_usdt_positive.py whose active
\* flag is False stays as it is: an iteration of main that dispatches the
\* price places no order for it, leaves its positions (holdings) unchanged
\* and never sets active again.  (In sol_usdt_success a grid started in the
\* iteration under a label in use is another object: its orders are its
\* own, and it replaces the grid of that label once it is built.)
C29_ClosedGridStaysClosed ==
  /\ (suLast.result # "none" /\ suLast.fetched) =>
       \A j \in 1..Len(suLast.su0.grids) :
         LET g0 == suLast.su0.grids[j]
             started == /\ su.next_label_idx # suLast.su0.next_label_idx
                        /\ g0.label = suLast.su0.next_label_idx % SU_LABELS
         IN  ~g0.active =>
               /\ su.grids[j] = g0 \/ (started /\ suLast.spawned)
               /\ started \/ \A a \in 1..Len(suLast.log) :
                                suLast.log[a].label # g0.label
  /\ pvLast.result # "none" =>
       \A j \in 1..Len(pvLast.pv0.grids) :
         LET g0 == pvLast.pv0.grids[j]
         IN  ~g0.active =>
               /\ \A a \in 1..Len(pvLast.log) : pvLast.log[a].name # g0.name
               /\ \A k \in 1..Len(pv.grids) :
                    pv.grids[k].name = g0.name => pv.grids[k] = g0

\* An iteration of sol_usdt_success.main has dispatched to a closed grid a
\* price inside its range, at which an active grid buys, and has placed an
\* order for another grid.
C29_Witness ==
  /\ suLast.result = "returned" /\ suLast.fetched /\ ~suLast.spawned
  /\ \E j \in 1..Len(suLast.su0.grids) :
       /\ ~suLast.su0.grids[j].active
       /\ SuLevel(suLast.su0.grids[j], suLast.px) \in 1..4
  /\ suLast.log # << >>

\* An iteration of sol_usdt_positive.main has dispatched a price to a list
\* of grids with a closed one in it, and placed an order for another grid.
C29_WitnessPositive ==
  /\ pvLast.result = "returned"
  /\ \E j \in 1..Len(pvLast.pv0.grids) : ~pvLast.pv0.grids[j].active
  /\ pvLast.log # << >>

\* The iteration of sol_usdt_success.main just made placed no sell order for
\* a position that a grid held, when the iteration began, with a quantity
\* below minSz.
SuDustNotSold(minSz) ==
  (suLast.result # "none" /\ suLast.fetched) =>
    \A j \in 1..Len(suLast.su0.grids) :
      LET g0 == suLast.su0.grids[j]
      IN  \A i \in 1..Len(g0.positions) :
            g0.positions[i][2] < minSz =>
              \A a \in 1..Len(suLast.log) :
                ~(/\ suLast.log[a].label = g0.label
                  /\ suLast.log[a].side = "sell"
                  /\ suLast.log[a].level = g0.positions[i][1])

\* Grid._close of any level, called on a grid of the present state, leaves
\* the level absent from positions when it returns, and, when the quantity
\* is below the minSz of INSTR_RULES, places no order and returns.
SuCloseRemoves ==
  \A j \in 1..Len(su.grids), level \in 0..SU_SLOTS :
    LET g == su.grids[j]
        w0 == [g |-> g, log |-> << >>, min_sz |-> su.min_sz, faults |-> 0,
               raised |-> FALSE]
    IN  \A w \in SuClose(w0, level) :
          /\ ~w.raised => level \notin { w.g.positions[i][1] : i \in 1..Len(w.g.positions) }
          /\ (\E i \in 1..Len(g.positions) :
                g.positions[i][1] = level /\ g.positions[i][2] < su.min_sz)
               => w.log = << >> /\ ~w.raised

\* C30: Grid._close (sol_usdt_success.py) places no sell order for a position
\* whose quantity is below the minSz of the instrument, and the level is
\* absent from positions after _close returns.
C30_DustNeverSold == SuDustNotSold(SU_MIN_SZ) /\ SuCloseRemoves

\* The part of C30 that holds: the same with the minSz of INSTR_RULES, that
\* is, in the runs in which get_instrument_info answered at startup.
C30_DustNeverSoldWithRules == SuDustNotSold(su.min_sz) /\ SuCloseRemoves

\* With the rules read, an iteration has closed a position below minSz: the
\* level is gone from the grid and no sell was placed for it.
C30_Witness ==
  /\ suLast.result = "returned" /\ suLast.fetched /\ ~suLast.spawned
  /\ su.min_sz > 0
  /\ \E j \in 1..Len(suLast.su0.grids) :
       LET g0 == suLast.su0.grids[j]
       IN  \E i \in 1..Len(g0.positions) :
             /\ g0.positions[i][2] < su.min_sz
             /\ g0.positions[i][1] \notin
                  { su.grids[j].positions[n][1] : n \in 1..Len(su.grids[j].positions) }
             /\ \A a \in 1..Len(suLast.log) :
                  ~(suLast.log[a].label = g0.label /\ suLast.log[a].side = "sell")

\* C31: over the lifetime of a Grid of sol_usdt_success.py a level is bought
\* at most once: on_price places no buy for a level at which the grid has
\* recorded a position before.  (opened is the history of one Grid object;
\* the buy of a grid being started under the same label is not the grid's.)
C31_LevelBoughtOnce ==
  (suLast.result # "none" /\ suLast.fetched) =>
    \A j \in 1..Len(suLast.su0.grids) :
      LET g0 == suLast.su0.grids[j]
          started == /\ su.next_label_idx # suLast.su0.next_label_idx
                     /\ g0.label = suLast.su0.next_label_idx % SU_LABELS
      IN  started \/ \A a \in 1..Len(suLast.log) :
                       ~(/\ suLast.log[a].label = g0.label
                         /\ suLast.log[a].side = "buy"
                         /\ suLast.log[a].level \in g0.opened)

\* C32: after a Grid.on_price (sol_usdt_success.py) that observes an interior
\* level lvl in 1..9 the grid has no position at lvl + 1: the position whose
\* score is -1 was closed by the call and not opened again.  (Read after an
\* iteration of main in which no call raised, on the grids that were active
\* and were not replaced by a new grid.)
C32_NoPositionOneAbove ==
  (suLast.result = "returned" /\ suLast.fetched) =>
    \A j \in 1..Len(suLast.su0.grids) :
      LET g0 == suLast.su0.grids[j]
          lvl == SuLevel(g0, suLast.px)
          replaced == /\ suLast.spawned
                      /\ g0.label = suLast.su0.next_label_idx % SU_LABELS
      IN  (g0.active /\ lvl \in 1..(SU_SLOTS - 1) /\ ~replaced) =>
            \A i \in 1..Len(su.grids[j].positions) :
              su.grids[j].positions[i][1] # lvl + 1

\* An iteration in which a grid held a position one level above the level
\* observed, and no longer does.
C32_Witness ==
  /\ suLast.result = "returned" /\ suLast.fetched /\ ~suLast.spawned
  /\ \E j \in 1..Len(suLast.su0.grids) :
       LET g0 == suLast.su0.grids[j]
           lvl == SuLevel(g0, suLast.px)
       IN  /\ g0.active /\ lvl \in 1..(SU_SLOTS - 1)
           /\ \E i \in 1..Len(g0.positions) : g0.positions[i][1] = lvl + 1
           /\ \A i \in 1..Len(su.grids[j].positions) :
                su.grids[j].positions[i][1] # lvl + 1

\* The level update_single_grid computes for grid g at the price px, or -1
\* when the price is outside the bounds.
MxTarget(g, px) ==
  LET b == MxBounds(g)
      p == px * MX_BOUNDARY_DEN * MX_GRID_COUNT
  IN  IF p <= b.lower \/ p >= b.upper THEN -1
      ELSE Max(0, Min(MX_GRID_COUNT - 1, (p - b.lower) \div b.step))

\* C33: GridStrategy (src/mexc_cloud_bot.py) places a SELL for a level only
\* if the BUY of that level was found FILLED: every SELL of a call of
\* update_grids is for a position that was filled when the call began, and
\* a resting buy crossed on the way up is gone from positions after the
\* call without a SELL.
C33_SellsOnlyFilled ==
  (mxLast.op = "update" /\ mxLast.fetched) =>
    \A j \in 1..Len(mxLast.grids1) :
      LET g0 == mxLast.grids1[j]
          t == MxTarget(g0, mxLast.px)
      IN  /\ \A a \in 1..Len(mxLast.log) :
               (mxLast.log[a].id = g0.id /\ mxLast.log[a].side = "SELL") =>
                 /\ mxLast.log[a].level \in DOMAIN g0.positions
                 /\ g0.positions[mxLast.log[a].level]
          /\ (g0.active /\ t > g0.current_level) =>
               \A l \in g0.current_level..(t - 1) :
                 (l \in DOMAIN g0.positions /\ ~g0.positions[l]) =>
                   /\ l \notin DOMAIN mx.grids[j].positions
                   /\ \A a \in 1..Len(mxLast.log) :
                        ~(/\ mxLast.log[a].id = g0.id
                          /\ mxLast.log[a].side = "SELL"
                          /\ mxLast.log[a].level = l)

\* update_grids has sold a filled position on the way up.
C33_Witness ==
  /\ mxLast.op = "update" /\ mxLast.fetched
  /\ \E a \in 1..Len(mxLast.log) :
       mxLast.log[a].side = "SELL" /\ mxLast.log[a].ok

\* update_grids has crossed a resting buy on the way up.
C33_WitnessResting ==
  /\ mxLast.op = "update" /\ mxLast.fetched
  /\ \E j \in 1..Len(mxLast.grids1) :
       LET g0 == mxLast.grids1[j]
           t == MxTarget(g0, mxLast.px)
       IN  /\ g0.active /\ t > g0.current_level
           /\ \E l \in g0.current_level..(t - 1) :
                l \in DOMAIN g0.positions /\ ~g0.positions[l]

\* C35: execute_grid_trade (src/mexc_cloud_bot.py) never records a new buy
\* at a level that has an entry in grid['positions']: every BUY with an
\* orderId placed by a call of update_grids is for a level at which the
\* grid had no entry when the call began.  (The call removes entries only at
\* levels below the one it buys at.)
C35_BuyNeverOverwrites ==
  (mxLast.op = "update" /\ mxLast.fetched) =>
    \A j \in 1..Len(mxLast.grids1) :
      LET g0 == mxLast.grids1[j]
      IN  \A a \in 1..Len(mxLast.log) :
            (/\ mxLast.log[a].id = g0.id
             /\ mxLast.log[a].side = "BUY"
             /\ mxLast.log[a].ok)
              => mxLast.log[a].level \notin DOMAIN g0.positions

\* C34: a grid that is still active with open positions is never dropped or
\* replaced in the map of main: the grid that grids[label] = Grid(label, price)
\* takes the place of, when the label was in the map already, is not an active
\* grid that holds positions.
C34_ActiveGridNeverReplaced ==
  (suLast.result = "returned" /\ suLast.spawned) =>
    \A i \in 1..Len(suLast.dropped) :
      ~(suLast.dropped[i].active /\ suLast.dropped[i].positions # << >>)

\* C36: in MovingGridBot a recorded position is discarded or replaced only
\* after a sell of that position was confirmed filled: when update_grids
\* leaves a grid with another position than it had, or with none, the sell
\* of the old position was placed and filled in that call.
C36_PositionGoesOnlyWhenSold ==
  (ubLast.op = "update" /\ ubLast.grid0[1].position # << >>) =>
    (ub.grid[1].position # ubLast.grid0[1].position
       => ubLast.sell = "filled")

\* C37: in every state of GridCaseD in which every order so far was accepted
\* and filled in full, no held level is below prev_level, and after an
\* on_price that rose into level L, level L - 1 is not held.
C37_NothingHeldBelowLevel ==
  (pc # "off" /\ faults = 0) =>
    /\ \A l \in HeldLevels(held) : l >= prev_level
    /\ (last.op = "on_price" /\ last.lv > last.prev0)
         => (last.lv - 1) \notin HeldLevels(held)

\* on_price, every order filled in full, has risen into a level from the
\* level below, which was held and is not any more, with levels above still
\* held.
C37_Witness ==
  /\ pc = "poll" /\ faults = 0
  /\ last.op = "on_price" /\ last.lv > last.prev0
  /\ (last.lv - 1) \in HeldLevels(last.held0)
  /\ (last.lv - 1) \notin HeldLevels(held)
  /\ \E l \in HeldLevels(held) : l > prev_level

\* C38: in the order book of mexc-grid-bot/mexc_cloud_bot.py, in every
\* state and for every grid and level, the level is not in both buy_orders
\* and sell_orders, and every level of sell_orders is in filled_positions.
C38_OrderBookConsistent ==
  \A i \in 1..Len(ob.grids) :
    /\ ob.grids[i].buy_orders \cap ob.grids[i].sell_orders = {}
    /\ ob.grids[i].sell_orders \subseteq ob.grids[i].filled_positions

\* check_all_orders_status has run on a grid that had a sell order resting
\* at one level and a buy order at another: the sell filled and its level
\* has a buy order again, the buy filled and its level has a sell order.
C38_Witness ==
  /\ obLast.op = "check"
  /\ \E i \in 1..Len(obLast.grids0) :
       \E l, m \in 0..(OB_GRID_COUNT - 1) :
         /\ l \in obLast.grids0[i].sell_orders
         /\ l \in ob.grids[i].buy_orders
         /\ m \in obLast.grids0[i].buy_orders
         /\ m \in ob.grids[i].sell_orders

\* C39: in sol_usdt_positive.py, after construction and after every on_price,
\* an active grid holds at most one slot, and that slot is last_slot; and on
\* a change of level the holding of the slot that is left is sold before
\* the new slot is bought: a buy of on_price at another slot than the one
\* the grid was at, which it held, comes after the accepted sell of that
\* slot.
C39_HoldsOnlyLastSlot ==
  /\ \A i \in 1..Len(pv.grids) :
       pv.grids[i].active =>
         \A j \in 1..Len(pv.grids[i].holdings) :
           pv.grids[i].holdings[j][1] = pv.grids[i].last_slot
  /\ pvLast.result # "none" =>
       \A i \in 1..Len(pvLast.pv0.grids) :
         LET g0 == pvLast.pv0.grids[i]
         IN  \A a \in 1..Len(pvLast.log) :
               (/\ pvLast.log[a].name = g0.name
                /\ pvLast.log[a].side = "buy"
                /\ pvLast.log[a].slot # g0.last_slot
                /\ HoldingsGet(g0.holdings, g0.last_slot) > 0)
                 => \E b \in 1..(a - 1) :
                      /\ pvLast.log[b].name = g0.name
                      /\ pvLast.log[b].side = "sell"
                      /\ pvLast.log[b].slot = g0.last_slot
                      /\ pvLast.log[b].ok

\* An iteration of main has given an active grid that held its slot a price
\* of another slot: the grid now holds the new slot alone.
C39_Witness ==
  /\ pvLast.result = "returned"
  /\ \E i \in 1..Len(pvLast.pv0.grids) :
       LET g0 == pvLast.pv0.grids[i]
       IN  /\ HoldingsGet(g0.holdings, g0.last_slot) > 0
           /\ \E k \in 1..Len(pv.grids) :
                /\ pv.grids[k].name = g0.name
                /\ pv.grids[k].active
                /\ pv.grids[k].last_slot # g0.last_slot
                /\ pv.grids[k].holdings # << >>

====
